---- MODULE Spec2Model ----
(***************************************************************************)
(* Model of the express bridge (src/src/express-bridge/index.js) and of    *)
(* the line handler of its child (src/src/postgres-mcp-server/             *)
(* simple-server.js).                                                      *)
(*                                                                         *)
(* The bridge turns each POST /api/mcp into one JSON line on the child's   *)
(* stdin, registers a pending entry with a 30 s timer under a numeric id,  *)
(* and resolves the entry when a line with that id comes back on the       *)
(* child's stdout.  Node runs every callback to completion, and the        *)
(* continuation of an awaited promise runs as a microtask before the next  *)
(* callback, so each action below is one callback together with the        *)
(* continuations it wakes.                                                 *)
(***************************************************************************)
EXTENDS Integers, Sequences, FiniteSets, TLC

\* ------------------------------------------------------------------ bounds
MaxRequests == 2        \* POSTs made to the bridge
MaxNoise == 1           \* lines on the child's stdout that answer no request
MaxPipe == 3            \* bytes in flight on the child's stdout
TimeoutTicks == 2       \* the 30000 ms of the request timer, in clock ticks
MaxBytes == 4           \* length of the byte sequences fed to the framer alone
MaxEntries == 2         \* members of the data and of the conditions of a tool call
MaxRows == 1            \* rows and row count of a result of pool.query

\* ------------------------------------------------------- bytes and text
\* A byte of the child's stdout.  An envelope atom stands for the run of
\* ASCII bytes of one JSON envelope written by JSON.stringify.
Byte(n) == [t |-> "byte", b |-> n]

\* A character of the decoded text: a code point, or an envelope atom.
Ch(c) == [t |-> "ch", c |-> c]

NL == Ch(10)

REPLACEMENT == 65533

\* JSON values that occur as the id of an envelope.
JStr(s) == [ty |-> "string", s |-> s]

JNull == [ty |-> "null"]

\* The id of an object that has no id member.
JUndefined == [ty |-> "undefined"]

\* The characters of a JSON envelope {"jsonrpc":"2.0", <kind>: ..., "id": id}.
Envelope(id, kind) == [t |-> "msg", id |-> id, kind |-> kind]

IsLead2(b) == b >= 194 /\ b <= 223

IsCont(e) == e.t = "byte" /\ e.b >= 128 /\ e.b <= 191

\* data.toString(): UTF-8 decoding of ONE chunk.  A lead byte whose
\* continuation byte is not in the same chunk, and a continuation byte with
\* no lead byte before it, each decode to U+FFFD.
RECURSIVE Utf8Decode(_)
Utf8Decode(bs) ==
  IF bs = <<>> THEN <<>>
  ELSE LET h == Head(bs) IN
    IF h.t = "msg" THEN <<h>> \o Utf8Decode(Tail(bs))
    ELSE IF h.b < 128 THEN <<Ch(h.b)>> \o Utf8Decode(Tail(bs))
    ELSE IF IsLead2(h.b) /\ Len(bs) >= 2 /\ IsCont(bs[2])
      THEN <<Ch((h.b - 192) * 64 + (bs[2].b - 128))>>
             \o Utf8Decode(SubSeq(bs, 3, Len(bs)))
    ELSE <<Ch(REPLACEMENT)>> \o Utf8Decode(Tail(bs))

\* buffer.indexOf('\n'): 0-based index of the first occurrence, or -1.
IndexOf(s, x) ==
  IF \E i \in 1..Len(s) : s[i] = x
  THEN (CHOOSE i \in 1..Len(s) : s[i] = x /\ \A j \in 1..(i - 1) : s[j] # x) - 1
  ELSE -1

\* ------------------------------------------------- numbers and id strings
DigitChars == <<"0", "1", "2", "3", "4", "5", "6", "7", "8", "9">>

IsDigit(c) == \E d \in 1..10 : DigitChars[d] = c

DigitValue(c) == (CHOOSE d \in 1..10 : DigitChars[d] = c) - 1

\* requestId.toString() for a non-negative integer.
RECURSIVE NumberToString(_)
NumberToString(n) ==
  IF n < 10 THEN <<DigitChars[n + 1]>>
  ELSE NumberToString(n \div 10) \o <<DigitChars[(n % 10) + 1]>>

\* ToString of the value handed to parseInt.
ToStringJS(v) ==
  IF v.ty = "string" THEN v.s
  ELSE IF v.ty = "null" THEN <<"n", "u", "l", "l">>
  ELSE <<"u", "n", "d", "e", "f", "i", "n", "e", "d">>

RECURSIVE SkipWhite(_)
SkipWhite(s) == IF s # <<>> /\ Head(s) = " " THEN SkipWhite(Tail(s)) ELSE s

RECURSIVE DigitPrefix(_)
DigitPrefix(s) ==
  IF s # <<>> /\ IsDigit(Head(s)) THEN <<Head(s)>> \o DigitPrefix(Tail(s))
  ELSE <<>>

RECURSIVE DigitsValue(_)
DigitsValue(ds) ==
  IF ds = <<>> THEN 0
  ELSE DigitsValue(SubSeq(ds, 1, Len(ds) - 1)) * 10 + DigitValue(ds[Len(ds)])

\* parseInt(text, 10): leading white space is skipped, one sign is taken,
\* then the longest prefix of decimal digits; no digit gives NaN.
ParseInt(text) ==
  LET s == SkipWhite(text)
      neg == s # <<>> /\ Head(s) = "-"
      body == IF s # <<>> /\ Head(s) \in {"-", "+"} THEN Tail(s) ELSE s
      ds == DigitPrefix(body)
  IN IF ds = <<>> THEN [nan |-> TRUE, n |-> 0]
     ELSE [nan |-> FALSE, n |-> IF neg THEN 0 - DigitsValue(ds) ELSE DigitsValue(ds)]

\* ------------------------------------------------------------------ state
VARIABLES
  currentId,        \* bridge: let currentId = 1
  pendingRequests,  \* bridge: the Map, as a set of [key, call]: the entry under
                    \* key holds the resolve, reject and timer of that POST
  calls,            \* bridge: one record per POST that was made, in order
  buffer,           \* bridge: the text after the last newline seen so far
  errorLog,         \* bridge: number of 'Error parsing MCP response' reports
  alive,            \* bridge: FALSE once process.exit was called
  stdin,            \* child: request lines written by the bridge, not yet read
  handlers,         \* child: 'line' handlers suspended in await processRequest
  received,         \* child: number of request lines read
  lastEmitted,      \* child: position of the request line answered last
  pipe,             \* child's stdout: bytes written and not yet delivered
  noise,            \* number of stdout lines written that answer no request
  lastLines,        \* the lines extracted by the 'data' event that has just run
  fed,              \* framer alone: all bytes delivered so far
  lines,            \* framer alone: all lines extracted so far
  server,           \* tools: the program that answers, "simple" or "sdk"
  input,            \* tools: the line read (simple-server) or the CallTool
                    \* request handed to the handler (SDK server)
  pc,               \* tools: "start", "await" (suspended in await
                    \* pool.query), "done"; "idle" where no tool runs
  poolCalls,        \* tools: the pool.query calls made, in order, each with
                    \* its text, its parameters and its outcome
  produced,         \* tools: what the handler produced at its end
  mock,             \* simple-server: MOCK_MODE
  boot,             \* simple-server: how far main() is: "connecting" (in
                    \* await pool.connect), "running", "exited"; "idle"
                    \* where no process is modelled
  connects,         \* simple-server: number of pool.connect calls made
  history           \* simple-server: the lines handled before the one in
                    \* input, each with its pool.query calls and its answer

vars == <<currentId, pendingRequests, calls, buffer, errorLog, alive,
          stdin, handlers, received, lastEmitted, pipe, noise, lastLines,
          fed, lines, server, input, pc, poolCalls, produced,
          mock, boot, connects, history>>

bridgeVars == <<currentId, pendingRequests, calls, buffer, errorLog, alive,
                stdin, handlers, received, lastEmitted, pipe, noise, lastLines,
                fed, lines>>

processVars == <<mock, boot, connects, history>>

toolVars == <<server, input, pc, poolCalls, produced, mock, boot, connects, history>>

\* No tool call is being handled.
ToolsIdle ==
  /\ server = "simple"
  /\ input = [t |-> "text"]
  /\ pc = "idle"
  /\ poolCalls = <<>>
  /\ produced = [t |-> "none"]
  /\ mock = FALSE
  /\ boot = "idle"
  /\ connects = 0
  /\ history = <<>>

\* ------------------------------------------------------- the Map of entries
MapHas(map, key) == \E e \in map : e.key = key

MapGet(map, key) == CHOOSE e \in map : e.key = key

MapDelete(map, key) == {e \in map : e.key # key}

MapSet(map, key, call) == MapDelete(map, key) \cup {[key |-> key, call |-> call]}

\* ------------------------------------------------- promises and replies
NoReply == [status |-> 0]

\* new Error('MCP request timed out after 30 seconds')
TimeoutError == "MCP request timed out after 30 seconds"

\* res.status(500).json({error: {code: -32000,
\*                               message: `MCP server error: ${error.message}`}})
ErrorReply(errorMessage) ==
  [status |-> 500, code |-> -32000,
   message |-> <<"MCP server error: ", errorMessage>>]

\* res.json(response)
OkReply(response) == [status |-> 200, body |-> response]

\* Fulfil that answers an error envelope of the child with status 500.
FulfilErrorAs500(call, response) ==
  IF call.promise = "pending"
  THEN [call EXCEPT !.promise = "fulfilled", !.settles = @ + 1,
                    !.reply = IF response.kind = "error"
                              THEN [status |-> 500, body |-> response]
                              ELSE OkReply(response),
                    !.sent = @ + 1, !.handler = "ended"]
  ELSE [call EXCEPT !.settles = @ + 1]

\* resolve(response) on the promise of a POST, and the continuation
\* 'res.json(response)' it wakes where the handler is suspended in
\* 'await responsePromise'.  Settling a settled promise does nothing, and a
\* promise nobody awaits wakes nothing.  sent counts the HTTP responses.
Fulfil(call, response) ==
  IF call.promise = "pending"
  THEN IF call.handler = "await"
       THEN [call EXCEPT !.promise = "fulfilled", !.settles = @ + 1,
                         !.reply = OkReply(response),
                         !.sent = @ + 1, !.handler = "ended"]
       ELSE [call EXCEPT !.promise = "fulfilled", !.settles = @ + 1]
  ELSE [call EXCEPT !.settles = @ + 1]

\* Reject that runs the catch block whether or not the handler is waiting.
RejectAlwaysResponds(call, errorMessage) ==
  IF call.promise = "pending"
  THEN [call EXCEPT !.promise = "rejected", !.settles = @ + 1,
                    !.reply = ErrorReply(errorMessage),
                    !.sent = @ + 1, !.handler = "ended"]
  ELSE [call EXCEPT !.settles = @ + 1]

\* reject(new Error(...)) on the promise of a POST, and the catch block it
\* wakes where the handler is suspended in 'await responsePromise'.
Reject(call, errorMessage) ==
  IF call.promise = "pending"
  THEN IF call.handler = "await"
       THEN [call EXCEPT !.promise = "rejected", !.settles = @ + 1,
                         !.reply = ErrorReply(errorMessage),
                         !.sent = @ + 1, !.handler = "ended"]
       ELSE [call EXCEPT !.promise = "rejected", !.settles = @ + 1]
  ELSE [call EXCEPT !.settles = @ + 1]

\* ClearTimeout that cancels nothing.
ClearTimeoutLeavesArmed(call) == call

\* clearTimeout(timer)
ClearTimeout(call) == [call EXCEPT !.timer = IF @ = "armed" THEN "cleared" ELSE @]

\* ------------------------------------------------ the stdout 'data' handler
\* JSON.parse(message): the text of exactly one envelope parses, any other
\* text (no character, other characters, two envelopes) is a SyntaxError.
JSONParse(message) ==
  IF Len(message) = 1 /\ message[1].t = "msg"
  THEN [ok |-> TRUE, value |-> message[1]]
  ELSE [ok |-> FALSE, value |-> NL]

\* ResolveEntry without the clearTimeout.
ResolveEntryKeepTimer(st, key, response) ==
  LET c == MapGet(st.pendingRequests, key).call
  IN [st EXCEPT !.pendingRequests = MapDelete(@, key),
                !.calls[c] = Fulfil(@, response)]

\* clearTimeout(pendingRequest.timeout); pendingRequests.delete(requestId);
\* pendingRequest.resolve(response)
ResolveEntry(st, key, response) ==
  LET c == MapGet(st.pendingRequests, key).call
  IN [st EXCEPT !.pendingRequests = MapDelete(@, key),
                !.calls[c] = Fulfil(ClearTimeout(@), response)]

\* The entry registered first among those pending.
OldestKey(map) == CHOOSE k \in {e.key : e \in map} : \A e \in map : k <= e.key

\* ProcessMessage matching by position: the response goes to the oldest entry.
ProcessMessageInOrder(message, st) ==
  LET parsed == JSONParse(message)
  IN IF ~parsed.ok THEN [st EXCEPT !.errorLog = @ + 1]
     ELSE IF st.pendingRequests # {}
          THEN ResolveEntry(st, OldestKey(st.pendingRequests), parsed.value)
          ELSE st

\* ProcessMessage that hands a response with no entry to the oldest entry.
ProcessMessageFallback(message, st) ==
  LET parsed == JSONParse(message)
  IN IF ~parsed.ok THEN [st EXCEPT !.errorLog = @ + 1]
     ELSE LET response == parsed.value
              requestId == ParseInt(ToStringJS(response.id))
          IN IF ~requestId.nan /\ MapHas(st.pendingRequests, requestId.n)
             THEN ResolveEntry(st, requestId.n, response)
             ELSE IF st.pendingRequests # {}
                  THEN ResolveEntry(st, OldestKey(st.pendingRequests), response)
                  ELSE st

\* ProcessMessage that fails every pending request on a line that does not
\* parse and on a response that carries no id.
ProcessMessageFailAll(message, st) ==
  LET parsed == JSONParse(message)
      failed == [st EXCEPT
                   !.pendingRequests = {},
                   !.calls = [c \in 1..Len(st.calls) |->
                     IF \E e \in st.pendingRequests : e.call = c
                     THEN Reject(ClearTimeout(st.calls[c]), "Parse error")
                     ELSE st.calls[c]]]
  IN IF ~parsed.ok THEN [failed EXCEPT !.errorLog = @ + 1]
     ELSE LET response == parsed.value
              requestId == ParseInt(ToStringJS(response.id))
          IN IF requestId.nan THEN failed
             ELSE IF MapHas(st.pendingRequests, requestId.n)
                  THEN ResolveEntry(st, requestId.n, response)
                  ELSE st

\* ProcessMessage that drops every entry on a response whose id has none.
ProcessMessageUnmatchedClears(message, st) ==
  LET parsed == JSONParse(message)
  IN IF ~parsed.ok THEN [st EXCEPT !.errorLog = @ + 1]
     ELSE LET response == parsed.value
              requestId == ParseInt(ToStringJS(response.id))
          IN IF ~requestId.nan /\ MapHas(st.pendingRequests, requestId.n)
             THEN ResolveEntry(st, requestId.n, response)
             ELSE [st EXCEPT !.pendingRequests = {}]

\* The try/catch of one extracted line.
ProcessMessage(message, st) ==
  LET parsed == JSONParse(message)
  IN IF ~parsed.ok THEN [st EXCEPT !.errorLog = @ + 1]
     ELSE LET response == parsed.value
              requestId == ParseInt(ToStringJS(response.id))
          IN IF ~requestId.nan /\ MapHas(st.pendingRequests, requestId.n)
             THEN ResolveEntry(st, requestId.n, response)
             ELSE st

\* DataLoop with the try/catch around the loop instead of inside it: a line
\* that does not parse ends the loop and the lines after it stay in the buffer.
RECURSIVE DataLoopTryOutside(_, _)
DataLoopTryOutside(buf, st) ==
  LET newlineIndex == IndexOf(buf, NL)
  IN IF newlineIndex = -1 THEN [st EXCEPT !.buffer = buf]
     ELSE LET message == SubSeq(buf, 1, newlineIndex)
              rest == SubSeq(buf, newlineIndex + 2, Len(buf))
              seen == [st EXCEPT !.extracted = Append(@, message)]
          IN IF ~JSONParse(message).ok
             THEN [seen EXCEPT !.buffer = rest, !.errorLog = @ + 1]
             ELSE DataLoopTryOutside(rest, ProcessMessage(message, seen))

\* The while loop: take the text before the first newline, keep the rest,
\* process the line, repeat until no newline is left.
RECURSIVE DataLoop(_, _)
DataLoop(buf, st) ==
  LET newlineIndex == IndexOf(buf, NL)
  IN IF newlineIndex = -1 THEN [st EXCEPT !.buffer = buf]
     ELSE LET message == SubSeq(buf, 1, newlineIndex)
              rest == SubSeq(buf, newlineIndex + 2, Len(buf))
          IN DataLoop(rest, ProcessMessage(message,
                              [st EXCEPT !.extracted = Append(@, message)]))

\* mcpProcess.stdout.on('data', ...) applied to one chunk.
OnData(data, st) == DataLoop(st.buffer \o Utf8Decode(data), st)

BridgeState ==
  [pendingRequests |-> pendingRequests, calls |-> calls, buffer |-> buffer,
   errorLog |-> errorLog, extracted |-> <<>>]

\* ------------------------------------------------------------- the bridge
Init ==
  /\ currentId = 1
  /\ pendingRequests = {}
  /\ calls = <<>>
  /\ buffer = <<>>
  /\ errorLog = 0
  /\ alive = TRUE
  /\ stdin = <<>>
  /\ handlers = {}
  /\ received = 0
  /\ lastEmitted = 0
  /\ pipe = <<>>
  /\ noise = 0
  /\ lastLines = <<>>
  /\ fed = <<>>
  /\ lines = <<>>
  /\ ToolsIdle

\* The line JSON.stringify(request) + '\n' of a request with this id.
RequestLine(id) == [t |-> "req", id |-> id]

\* Post that gives out the smallest id with no entry instead of the next id.
PostReuseId ==
  /\ alive
  /\ Len(calls) < MaxRequests
  /\ LET requestId == CHOOSE n \in 1..(MaxRequests + 1) :
                        /\ ~MapHas(pendingRequests, n)
                        /\ \A m \in 1..(n - 1) : MapHas(pendingRequests, m)
     IN /\ currentId' = currentId + 1
        /\ calls' = Append(calls,
             [requestId |-> requestId, timer |-> "armed", age |-> 0,
              promise |-> "pending", settles |-> 0, reply |-> NoReply,
              handler |-> "await", sent |-> 0])
        /\ pendingRequests' = MapSet(pendingRequests, requestId, Len(calls) + 1)
        /\ stdin' = Append(stdin, RequestLine(JStr(NumberToString(requestId))))
  /\ UNCHANGED <<buffer, errorLog, alive, handlers, received, lastEmitted,
                 pipe, noise, fed, lines>>
  /\ lastLines' = <<>>
  /\ UNCHANGED toolVars

\* Post that writes the request line and registers no entry.
PostUnregistered ==
  /\ alive
  /\ Len(calls) < MaxRequests
  /\ LET requestId == currentId
     IN /\ currentId' = currentId + 1
        /\ calls' = Append(calls,
             [requestId |-> requestId, timer |-> "armed", age |-> 0,
              promise |-> "pending", settles |-> 0, reply |-> NoReply,
              handler |-> "await", sent |-> 0])
        /\ pendingRequests' = pendingRequests
        /\ stdin' = Append(stdin, RequestLine(JStr(NumberToString(requestId))))
  /\ UNCHANGED <<buffer, errorLog, alive, handlers, received, lastEmitted,
                 pipe, noise, fed, lines>>
  /\ lastLines' = <<>>
  /\ UNCHANGED toolVars

\* app.post('/api/mcp') up to 'await responsePromise': allocate the id, arm
\* the timer, register the entry, write the request line to the child.
\* age counts the ticks since the timer was armed.
Post ==
  /\ alive
  /\ Len(calls) < MaxRequests
  /\ LET requestId == currentId
     IN /\ currentId' = currentId + 1
        /\ calls' = Append(calls,
             [requestId |-> requestId, timer |-> "armed", age |-> 0,
              promise |-> "pending", settles |-> 0, reply |-> NoReply,
              handler |-> "await", sent |-> 0])
        /\ pendingRequests' = MapSet(pendingRequests, requestId, Len(calls) + 1)
        /\ stdin' = Append(stdin, RequestLine(JStr(NumberToString(requestId))))
  /\ UNCHANGED <<buffer, errorLog, alive, handlers, received, lastEmitted,
                 pipe, noise, fed, lines>>
  /\ lastLines' = <<>>
  /\ UNCHANGED toolVars

\* app.post('/api/mcp') where mcpProcess.stdin.write(JSON.stringify(request)
\* + '\n') throws: the id is allocated, the timer armed and the entry
\* registered, nothing is written, and the catch block answers with status
\* 500.  'await responsePromise' is never reached.
PostWriteFails ==
  /\ alive
  /\ Len(calls) < MaxRequests
  /\ LET requestId == currentId
     IN /\ currentId' = currentId + 1
        /\ calls' = Append(calls,
             [requestId |-> requestId, timer |-> "armed", age |-> 0,
              promise |-> "pending", settles |-> 0,
              reply |-> ErrorReply("write failed"),
              handler |-> "ended", sent |-> 1])
        /\ pendingRequests' = MapSet(pendingRequests, requestId, Len(calls) + 1)
  /\ UNCHANGED <<buffer, errorLog, alive, stdin, handlers, received, lastEmitted,
                 pipe, noise, fed, lines>>
  /\ lastLines' = <<>>
  /\ UNCHANGED toolVars

\* TimerFires without the pendingRequests.delete.
TimerFiresKeepEntry(c) ==
  /\ alive
  /\ c \in 1..Len(calls)
  /\ calls[c].timer = "armed"
  /\ calls' = [calls EXCEPT ![c] = Reject([@ EXCEPT !.timer = "fired"], TimeoutError)]
  /\ UNCHANGED <<currentId, pendingRequests, buffer, errorLog, alive, stdin,
                 handlers, received, lastEmitted, pipe, noise, fed, lines>>
  /\ lastLines' = <<>>
  /\ UNCHANGED toolVars

\* The setTimeout callback of POST number c:
\* pendingRequests.delete(requestId); reject(new Error(...)).
\* No handler reads the clock, so where the callback falls among the other
\* events is open: any time while the timer is armed.
\* Where the handler has ended in its catch block, the promise has no
\* rejection handler: the rejection is unhandled, which a Node process
\* reports and goes on, or ends on, according to its version and flags.
TimerFires(c) ==
  /\ alive
  /\ c \in 1..Len(calls)
  /\ calls[c].timer = "armed"
  /\ pendingRequests' = MapDelete(pendingRequests, calls[c].requestId)
  /\ calls' = [calls EXCEPT ![c] = Reject([@ EXCEPT !.timer = "fired"], TimeoutError)]
  /\ alive' \in (IF calls[c].handler = "ended" THEN BOOLEAN ELSE {TRUE})
  /\ UNCHANGED <<currentId, buffer, errorLog, stdin, handlers, received,
                 lastEmitted, pipe, noise, fed, lines>>
  /\ lastLines' = <<>>
  /\ UNCHANGED toolVars

\* With the clock: the callback runs when the 30000 ms of its timer are over.
TimerDue(c) ==
  /\ c \in 1..Len(calls)
  /\ calls[c].age >= TimeoutTicks
  /\ TimerFires(c)

\* One tick of the clock.  A timer that is due fires before the next tick.
Tick ==
  /\ alive
  /\ \E c \in 1..Len(calls) : calls[c].age <= TimeoutTicks
  /\ \A c \in 1..Len(calls) : calls[c].timer = "armed" => calls[c].age < TimeoutTicks
  /\ calls' = [c \in 1..Len(calls) |->
                 [calls[c] EXCEPT !.age = IF @ <= TimeoutTicks THEN @ + 1 ELSE @]]
  /\ UNCHANGED <<currentId, pendingRequests, buffer, errorLog, alive, stdin,
                 handlers, received, lastEmitted, pipe, noise, fed, lines>>
  /\ lastLines' = <<>>
  /\ UNCHANGED toolVars

\* A 'data' event delivering the first k bytes in flight as one chunk.
DataEvent(k) ==
  LET st == OnData(SubSeq(pipe, 1, k), BridgeState)
  IN /\ pendingRequests' = st.pendingRequests
     /\ calls' = st.calls
     /\ buffer' = st.buffer
     /\ errorLog' = st.errorLog
     /\ lastLines' = st.extracted
     /\ pipe' = SubSeq(pipe, k + 1, Len(pipe))

StdoutData ==
  /\ alive
  /\ \E k \in 1..Len(pipe) : DataEvent(k)
  /\ UNCHANGED <<currentId, alive, stdin, handlers, received, lastEmitted,
                 noise, fed, lines>>
  /\ UNCHANGED toolVars

\* mcpProcess.on('close'): the child has exited and the bridge calls
\* process.exit(code); nothing runs afterwards.
ChildClose ==
  /\ alive
  /\ alive' = FALSE
  /\ UNCHANGED <<currentId, pendingRequests, calls, buffer, errorLog, stdin,
                 handlers, received, lastEmitted, pipe, noise, fed, lines>>
  /\ lastLines' = <<>>
  /\ UNCHANGED toolVars

\* -------------------------------------------------------------- the child
\* console.log(JSON.stringify(response)): one line on stdout.
WriteLine(text) == pipe \o text \o <<Byte(10)>>

ParseErrorResponse == Envelope(JNull, "error")

\* rl.on('line'): the next request line is read.  A line that parses starts
\* processRequest and the handler is suspended in its await; a line that
\* does not parse is answered at once with the parse error.
ChildLine ==
  /\ alive
  /\ stdin # <<>>
  /\ stdin' = Tail(stdin)
  /\ received' = received + 1
  /\ IF Head(stdin).t = "req"
     THEN /\ handlers' = handlers \cup {[seq |-> received + 1, id |-> Head(stdin).id]}
          /\ UNCHANGED <<pipe, lastEmitted>>
     ELSE /\ Len(pipe) + 2 <= MaxPipe
          /\ pipe' = WriteLine(<<ParseErrorResponse>>)
          /\ lastEmitted' = received + 1
          /\ UNCHANGED handlers
  /\ UNCHANGED <<currentId, pendingRequests, calls, buffer, errorLog, alive,
                 noise, fed, lines>>
  /\ lastLines' = <<>>
  /\ UNCHANGED toolVars

\* processRequest of handler h has returned: the handler resumes and writes
\* the response, which carries the id of its request.
ChildRespond(h) ==
  /\ alive
  /\ h \in handlers
  /\ Len(pipe) + 2 <= MaxPipe
  /\ \E kind \in {"result", "error"} : pipe' = WriteLine(<<Envelope(h.id, kind)>>)
  /\ handlers' = handlers \ {h}
  /\ lastEmitted' = h.seq
  /\ UNCHANGED <<currentId, pendingRequests, calls, buffer, errorLog, alive,
                 stdin, received, noise, fed, lines>>
  /\ lastLines' = <<>>
  /\ UNCHANGED toolVars

\* The text {} : JSON, but no envelope.
EmptyObject == Envelope(JUndefined, "none")

\* Lines on the child's stdout that answer no request of the bridge: text
\* that is not JSON, an empty line, the parse-error response, the text {}.
NoiseLines == {<<Byte(97)>>, <<>>, <<ParseErrorResponse>>, <<EmptyObject>>}

StdoutNoise ==
  /\ alive
  /\ noise < MaxNoise
  /\ \E text \in NoiseLines :
       /\ Len(pipe) + Len(text) + 1 <= MaxPipe
       /\ pipe' = WriteLine(text)
  /\ noise' = noise + 1
  /\ UNCHANGED <<currentId, pendingRequests, calls, buffer, errorLog, alive,
                 stdin, handlers, received, lastEmitted, fed, lines>>
  /\ lastLines' = <<>>
  /\ UNCHANGED toolVars

Next ==
  \/ Post
  \/ \E c \in 1..MaxRequests : TimerFires(c)
  \/ StdoutData
  \/ ChildClose
  \/ ChildLine
  \/ \E h \in handlers : ChildRespond(h)
  \/ StdoutNoise

Spec == Init /\ [][Next]_vars

\* The bridge against a child's stdout that may also carry responses whose id
\* is not an id string the bridge sent.
ForeignIds ==
  {<<"0", "1">>, <<"1", ".", "0">>, <<"1", "a", "b", "c">>, <<"a", "b", "c">>}

ForeignResponse ==
  /\ alive
  /\ noise < MaxNoise
  /\ Len(pipe) + 2 <= MaxPipe
  /\ \E text \in ForeignIds : pipe' = WriteLine(<<Envelope(JStr(text), "result")>>)
  /\ noise' = noise + 1
  /\ UNCHANGED <<currentId, pendingRequests, calls, buffer, errorLog, alive,
                 stdin, handlers, received, lastEmitted, fed, lines>>
  /\ lastLines' = <<>>
  /\ UNCHANGED toolVars

NextOpen == Next \/ ForeignResponse

SpecOpen == Init /\ [][NextOpen]_vars

\* The bridge where the write of a request to the child may throw, against a
\* child that stays up; a timer that stays armed fires in the end.
NextWrite ==
  \/ Post
  \/ PostWriteFails
  \/ \E c \in 1..MaxRequests : TimerFires(c)
  \/ StdoutData
  \/ ChildLine
  \/ \E h \in handlers : ChildRespond(h)

SpecWrite ==
  /\ Init
  /\ [][NextWrite]_vars
  /\ \A c \in 1..MaxRequests : WF_vars(TimerFires(c))

\* Bridge and child with the clock: the timers of the event loop fire when
\* they are due, and the clock goes on.
NextTimed ==
  \/ Post
  \/ \E c \in 1..MaxRequests : TimerDue(c)
  \/ Tick
  \/ StdoutData
  \/ ChildClose
  \/ ChildLine
  \/ \E h \in handlers : ChildRespond(h)

SpecTimed ==
  /\ Init
  /\ [][NextTimed]_vars
  /\ WF_vars(Tick)
  /\ \A c \in 1..MaxRequests : WF_vars(TimerDue(c))

\* The framer alone: a byte sequence on the child's stdout, delivered in chunks
\* cut anywhere.
FramerBytes == {Byte(10), Byte(97), Byte(195), Byte(169)}

ByteSeqs(n) == UNION {[1..m -> FramerBytes] : m \in 0..n}

InitFramer ==
  /\ currentId = 1
  /\ pendingRequests = {}
  /\ calls = <<>>
  /\ buffer = <<>>
  /\ errorLog = 0
  /\ alive = TRUE
  /\ stdin = <<>>
  /\ handlers = {}
  /\ received = 0
  /\ lastEmitted = 0
  /\ pipe \in ByteSeqs(MaxBytes)
  /\ noise = 0
  /\ lastLines = <<>>
  /\ fed = <<>>
  /\ lines = <<>>
  /\ ToolsIdle

FramerFeed ==
  /\ \E k \in 1..Len(pipe) :
       /\ DataEvent(k)
       /\ fed' = fed \o SubSeq(pipe, 1, k)
  /\ lines' = lines \o lastLines'
  /\ UNCHANGED <<currentId, alive, stdin, handlers, received, lastEmitted, noise>>
  /\ UNCHANGED toolVars

NextFramer == FramerFeed

SpecFramer == InitFramer /\ [][NextFramer]_vars

\* ------------------------------------------------------------- the tools
\* The tool servers: simple-server.js, the child of the bridge, and the SDK
\* server index.js.  simple-server answers from its mock data where
\* DB_MOCK_MODE is set; the SDK server has no mock mode.
\* A handler runs from one await pool.query to the next; what it does next
\* is a function of the outcomes of the queries it has awaited so far, so
\* every handler below takes those outcomes as 'done' and is read from its
\* top: with n outcomes in done it stands at its (n+1)-th pool.query or at
\* its end.

\* JSON values.  An object is the sequence of its members in insertion order;
\* a member that is absent reads as undefined.
JText(w) == [ty |-> "string", w |-> w]

JNum(n) == [ty |-> "number", n |-> n]

JTrue == [ty |-> "boolean", b |-> TRUE]

JArray(items) == [ty |-> "array", items |-> items]

JObject(entries) == [ty |-> "object", entries |-> entries]

\* An SQL text, as the sequence of its pieces: a key word, an identifier
\* written into the text, or one character of a placeholder.
SqlText(text) == [ty |-> "string", text |-> text]

IsNullish(v) == v.ty \in {"undefined", "null"}

\* o.key
Member(o, key) ==
  IF o.ty = "object" /\ \E i \in 1..Len(o.entries) : o.entries[i].key = key
  THEN o.entries[CHOOSE i \in 1..Len(o.entries) : o.entries[i].key = key].value
  ELSE JUndefined

\* A default parameter value: (v = d) in a parameter list.
Default(v, d) == IF v.ty = "undefined" THEN d ELSE v

\* `${v}` in a template literal.
TemplateString(v) ==
  IF v.ty = "string" THEN v.w
  ELSE IF v.ty = "undefined" THEN "undefined"
  ELSE "null"

ObjectKeys(o) == [i \in 1..Len(o.entries) |-> o.entries[i].key]

ObjectValues(o) == [i \in 1..Len(o.entries) |-> o.entries[i].value]

\* The members JSON keeps: a member whose value is undefined is left out.
Obj(members) ==
  LET Present(e) == e.value.ty # "undefined"
  IN JObject(SelectSeq(members, Present))

\* { ...a, ...b }: the members of a, each with the value b has for its key
\* where b has one, then the members of b that a has not.  Spreading
\* undefined or null adds no member.
Spread(a, b) ==
  LET ea == IF a.ty = "object" THEN a.entries ELSE <<>>
      eb == IF b.ty = "object" THEN b.entries ELSE <<>>
      InA(e) == \E i \in 1..Len(ea) : ea[i].key = e.key
  IN JObject([i \in 1..Len(ea) |->
                [key |-> ea[i].key,
                 value |-> IF \E j \in 1..Len(eb) : eb[j].key = ea[i].key
                           THEN Member(b, ea[i].key) ELSE ea[i].value]]
             \o SelectSeq(eb, LAMBDA e : ~InA(e)))

\* JSON.stringify(value, null, 2) of an object.
JSONStringify(value) == [ty |-> "json", of |-> Obj(value.entries)]

\* parts.join(sep)
RECURSIVE Join(_, _)
Join(parts, sep) ==
  IF parts = <<>> THEN <<>>
  ELSE IF Len(parts) = 1 THEN parts[1]
  ELSE parts[1] \o <<sep>> \o Join(Tail(parts), sep)

\* ------------------------------------------------------ the query builder
\* The text of insertRecord, updateRecord and deleteRecord is the same in
\* simple-server.js and in index.js.

\* Placeholder that is one too high.
PlaceholderOffByOne(n) == <<"$">> \o NumberToString(n + 1)

\* `$${n}`
Placeholder(n) == <<"$">> \o NumberToString(n)

\* ReturningClause that is appended whether or not columns are named.
ReturningClauseAlways(returning) ==
  <<" RETURNING ">>
  \o Join([i \in 1..Len(returning.items) |-> <<TemplateString(returning.items[i])>>], ", ")

\* if (returning.length > 0) sql += ` RETURNING ${returning.join(', ')}`
ReturningClause(returning) ==
  IF Len(returning.items) > 0
  THEN <<" RETURNING ">>
       \o Join([i \in 1..Len(returning.items) |-> <<TemplateString(returning.items[i])>>], ", ")
  ELSE <<>>

\* InsertQuery that sends the values in the opposite order.
InsertQueryValuesReversed(table, data, schema, returning) ==
  LET columns == ObjectKeys(data)
      values == ObjectValues(data)
      placeholders == Join([j \in 1..Len(values) |-> Placeholder((j - 1) + 1)], ", ")
  IN [sql |-> SqlText(<<"INSERT INTO ", TemplateString(schema), ".", TemplateString(table), " (">>
                      \o Join([j \in 1..Len(columns) |-> <<columns[j]>>], ", ")
                      \o <<") VALUES (">> \o placeholders \o <<")">>
                      \o ReturningClause(returning)),
      values |-> [j \in 1..Len(values) |-> values[Len(values) + 1 - j]]]

\* The statement of insertRecord.  The i of the source counts from 0 and j
\* here from 1, so `$${i + 1}` is Placeholder((j - 1) + 1).
InsertQuery(table, data, schema, returning) ==
  LET columns == ObjectKeys(data)
      values == ObjectValues(data)
      placeholders == Join([j \in 1..Len(values) |-> Placeholder((j - 1) + 1)], ", ")
  IN [sql |-> SqlText(<<"INSERT INTO ", TemplateString(schema), ".", TemplateString(table), " (">>
                      \o Join([j \in 1..Len(columns) |-> <<columns[j]>>], ", ")
                      \o <<") VALUES (">> \o placeholders \o <<")">>
                      \o ReturningClause(returning)),
      values |-> values]

\* UpdateQuery whose WHERE placeholders start again at $1.
UpdateQueryNoOffset(table, data, conditions, schema, returning) ==
  LET dataKeys == ObjectKeys(data)
      updates == [j \in 1..Len(dataKeys) |->
                    <<dataKeys[j], " = ">> \o Placeholder((j - 1) + 1)]
      dataValues == ObjectValues(data)
      conditionKeys == ObjectKeys(conditions)
      whereConditions == [j \in 1..Len(conditionKeys) |->
                            <<conditionKeys[j], " = ">> \o Placeholder((j - 1) + 1)]
      conditionValues == ObjectValues(conditions)
  IN [sql |-> SqlText(<<"UPDATE ", TemplateString(schema), ".", TemplateString(table), " SET ">>
                      \o Join(updates, ", ")
                      \o <<" WHERE ">> \o Join(whereConditions, " AND ")
                      \o ReturningClause(returning)),
      values |-> dataValues \o conditionValues]

\* The statement of updateRecord.
UpdateQuery(table, data, conditions, schema, returning) ==
  LET dataKeys == ObjectKeys(data)
      updates == [j \in 1..Len(dataKeys) |->
                    <<dataKeys[j], " = ">> \o Placeholder((j - 1) + 1)]
      dataValues == ObjectValues(data)
      conditionKeys == ObjectKeys(conditions)
      whereConditions == [j \in 1..Len(conditionKeys) |->
                            <<conditionKeys[j], " = ">>
                            \o Placeholder((j - 1) + 1 + Len(dataValues))]
      conditionValues == ObjectValues(conditions)
  IN [sql |-> SqlText(<<"UPDATE ", TemplateString(schema), ".", TemplateString(table), " SET ">>
                      \o Join(updates, ", ")
                      \o <<" WHERE ">> \o Join(whereConditions, " AND ")
                      \o ReturningClause(returning)),
      values |-> dataValues \o conditionValues]

\* The statement of deleteRecord.
DeleteQuery(table, conditions, schema, returning) ==
  LET conditionKeys == ObjectKeys(conditions)
      whereConditions == [j \in 1..Len(conditionKeys) |->
                            <<conditionKeys[j], " = ">> \o Placeholder((j - 1) + 1)]
      values == ObjectValues(conditions)
  IN [sql |-> SqlText(<<"DELETE FROM ", TemplateString(schema), ".", TemplateString(table), " WHERE ">>
                      \o Join(whereConditions, " AND ")
                      \o ReturningClause(returning)),
      values |-> values]

\* The fixed statements of getTables and getTableSchema.
TablesSql ==
  SqlText(<<"SELECT table_name FROM information_schema.tables WHERE table_schema = ",
            "$", "1", " ORDER BY table_name;">>)

ColumnsSql ==
  SqlText(<<"SELECT column_name, data_type, is_nullable, column_default, character_maximum_length FROM information_schema.columns WHERE table_schema = ",
            "$", "1", " AND table_name = ", "$", "2", " ORDER BY ordinal_position;">>)

PkSql ==
  SqlText(<<"SELECT a.attname as column_name FROM pg_index i JOIN pg_attribute a ON a.attrelid = i.indrelid AND a.attnum = ANY(i.indkey) WHERE i.indrelid = ",
            "$", "1", "::regclass AND i.indisprimary;">>)

\* `${schema}.${table}`
QualifiedName(schema, table) ==
  [ty |-> "string", text |-> <<TemplateString(schema), ".", TemplateString(table)>>]

\* `Table '${table}' not found in schema '${schema}'`
NotFoundMessage(table, schema) ==
  <<"Table '", TemplateString(table), "' not found in schema '",
    TemplateString(schema), "'">>

\* ------------------------------------------------- the steps of a handler
\* The handler stands at await pool.query(sql, params).
Query(sql, params) == [t |-> "query", sql |-> sql, params |-> params]

Return(value) == [t |-> "return", value |-> value]

Throw(error) == [t |-> "throw", error |-> error]

\* new Error(message)
ErrorOf(message) == [name |-> "Error", code |-> 0, message |-> message]

\* The TypeError of reading a member of undefined or null, and of
\* Object.keys / Object.entries of undefined or null.
TypeError == [name |-> "TypeError", code |-> 0, message |-> <<"TypeError">>]

\* new McpError(code, message)
McpError(code, message) == [name |-> "McpError", code |-> code, message |-> message]

MethodNotFound == -32601

InternalError == -32603

\* The outcome of one pool.query.
PendingQuery ==
  [settled |-> FALSE, rejected |-> FALSE, rows |-> <<>>, rowCount |-> 0, message |-> <<>>]

Resolved(rows, rowCount) ==
  [settled |-> TRUE, rejected |-> FALSE, rows |-> rows, rowCount |-> rowCount,
   message |-> <<>>]

Rejected(message) ==
  [settled |-> TRUE, rejected |-> TRUE, rows |-> <<>>, rowCount |-> 0,
   message |-> message]

\* rows.map(row => row[key])
MapRows(rows, key) == [i \in 1..Len(rows) |-> Member(rows[i], key)]

\* { rows, rowCount } of executeQuery
QueryResult(result) ==
  JObject(<<[key |-> "rows", value |-> JArray(result.rows)],
            [key |-> "rowCount", value |-> JNum(result.rowCount)]>>)

\* TablesResult whose count grows with the lines handled before.
TablesResultCountsCalls(result) ==
  JObject(<<[key |-> "tables", value |-> JArray(MapRows(result.rows, "table_name"))],
            [key |-> "count", value |-> JNum(result.rowCount + Len(history))]>>)

\* { tables, count } of getTables
TablesResult(result) ==
  JObject(<<[key |-> "tables", value |-> JArray(MapRows(result.rows, "table_name"))],
            [key |-> "count", value |-> JNum(result.rowCount)]>>)

\* { table, schema, columns, primaryKeys } of getTableSchema
SchemaResult(table, schema, result, pkResult) ==
  JObject(<<[key |-> "table", value |-> table],
            [key |-> "schema", value |-> schema],
            [key |-> "columns", value |-> JArray(result.rows)],
            [key |-> "primaryKeys", value |-> JArray(MapRows(pkResult.rows, "column_name"))]>>)

\* RecordResult that reports the number of rows returned as the row count.
RecordResultCountsRows(result, returning) ==
  JObject(<<[key |-> "success", value |-> JTrue],
            [key |-> "rowCount", value |-> JNum(Len(result.rows))],
            [key |-> "returning",
             value |-> IF Len(returning.items) > 0 THEN JArray(result.rows)
                       ELSE JUndefined]>>)

\* { success, rowCount, returning } of the three record tools
RecordResult(result, returning) ==
  JObject(<<[key |-> "success", value |-> JTrue],
            [key |-> "rowCount", value |-> JNum(result.rowCount)],
            [key |-> "returning",
             value |-> IF Len(returning.items) > 0 THEN JArray(result.rows)
                       ELSE JUndefined]>>)

\* ------------------------------------------------------ the mock data
\* Of each row and column the members that tell it from the others are kept.
mockTables ==
  <<JText("users"), JText("products"), JText("orders"), JText("order_items"),
    JText("categories")>>

mockSchemas ==
  LET Column(name, type) ==
        JObject(<<[key |-> "column_name", value |-> JText(name)],
                  [key |-> "data_type", value |-> JText(type)]>>)
  IN [users |-> <<Column("id", "integer"), Column("name", "character varying"),
                  Column("email", "character varying"),
                  Column("created_at", "timestamp with time zone"),
                  Column("updated_at", "timestamp with time zone")>>,
      products |-> <<Column("id", "integer"), Column("name", "character varying"),
                     Column("description", "text"), Column("price", "numeric"),
                     Column("category_id", "integer"),
                     Column("created_at", "timestamp with time zone")>>]

mockPrimaryKeys ==
  [users |-> <<JText("id")>>, products |-> <<JText("id")>>,
   orders |-> <<JText("id")>>, order_items |-> <<JText("id")>>,
   categories |-> <<JText("id")>>]

mockData ==
  LET Record(id, name) ==
        JObject(<<[key |-> "id", value |-> JNum(id)],
                  [key |-> "name", value |-> JText(name)]>>)
  IN [users |-> <<Record(1, "John Doe"), Record(2, "Jane Smith")>>,
      products |-> <<Record(1, "Product 1"), Record(2, "Product 2")>>]

\* sql.toLowerCase(), on the words the statements are written with.
ToLowerCase(text) ==
  [i \in 1..Len(text) |->
     CASE text[i] = "SELECT" -> "select"
       [] text[i] = "FROM users" -> "from users"
       [] text[i] = "FROM products" -> "from products"
       [] text[i] = "DELETE" -> "delete"
       [] OTHER -> text[i]]

\* Math.floor(Math.random() * 1000): some integer from 0 to 999.
RandomId == [ty |-> "random", below |-> 1000]

\* ------------------------------------------- the tools of simple-server.js
\* ExecuteQuery that sends no parameters.
ExecuteQueryNoParams(sql, paramsArg, done) ==
  LET params == JArray(<<>>)
  IN IF done = <<>> THEN Query(sql, params)
     ELSE IF done[1].rejected
       THEN Throw(ErrorOf(<<"SQL error: ">> \o done[1].message))
     ELSE Return(QueryResult(done[1]))

\* executeQuery(sql, params = [])
ExecuteQuery(sql, paramsArg, done) ==
  LET params == Default(paramsArg, JArray(<<>>))
      Includes(text, word) == \E i \in 1..Len(text) : text[i] = word
      Mock(rows) == Return(QueryResult([rows |-> rows, rowCount |-> Len(rows)]))
  IN IF mock
       THEN IF sql.ty # "string" THEN Throw(TypeError)
            ELSE IF /\ Includes(ToLowerCase(sql.text), "select")
                    /\ Includes(ToLowerCase(sql.text), "from users")
              THEN Mock(mockData.users)
            ELSE IF /\ Includes(ToLowerCase(sql.text), "select")
                    /\ Includes(ToLowerCase(sql.text), "from products")
              THEN Mock(mockData.products)
            ELSE Mock(<<>>)
     ELSE IF done = <<>> THEN Query(sql, params)
     ELSE IF done[1].rejected
       THEN Throw(ErrorOf(<<"SQL error: ">> \o done[1].message))
     ELSE Return(QueryResult(done[1]))

\* GetTables without its mock branch.
GetTablesNoMock(schemaArg, done) ==
  LET schema == Default(schemaArg, JText("public"))
  IN IF done = <<>> THEN Query(TablesSql, JArray(<<schema>>))
     ELSE IF done[1].rejected
       THEN Throw(ErrorOf(<<"Error getting tables: ">> \o done[1].message))
     ELSE Return(TablesResult(done[1]))

\* getTables(schema = 'public')
GetTables(schemaArg, done) ==
  LET schema == Default(schemaArg, JText("public"))
  IN IF mock
       THEN Return(JObject(<<[key |-> "tables", value |-> JArray(mockTables)],
                             [key |-> "count", value |-> JNum(Len(mockTables))]>>))
     ELSE IF done = <<>> THEN Query(TablesSql, JArray(<<schema>>))
     ELSE IF done[1].rejected
       THEN Throw(ErrorOf(<<"Error getting tables: ">> \o done[1].message))
     ELSE Return(TablesResult(done[1]))

\* GetTableSchema that looks the primary key up whatever the column query
\* returned.
GetTableSchemaAlwaysPk(table, schemaArg, done) ==
  LET schema == Default(schemaArg, JText("public"))
  IN IF done = <<>> THEN Query(ColumnsSql, JArray(<<schema, table>>))
     ELSE IF done[1].rejected
       THEN Throw(ErrorOf(<<"Error getting table schema: ">> \o done[1].message))
     ELSE IF Len(done) = 1
       THEN Query(PkSql, JArray(<<QualifiedName(schema, table)>>))
     ELSE IF done[2].rejected
       THEN Throw(ErrorOf(<<"Error getting table schema: ">> \o done[2].message))
     ELSE Return(SchemaResult(table, schema, done[1], done[2]))

\* getTableSchema(table, schema = 'public')
GetTableSchema(table, schemaArg, done) ==
  LET schema == Default(schemaArg, JText("public"))
      Known(names) == table.ty = "string" /\ table.w \in names
  IN IF mock
       THEN IF ~Known(DOMAIN mockSchemas)
              THEN Throw(ErrorOf(NotFoundMessage(table, schema)))
            ELSE Return(JObject(
                   <<[key |-> "table", value |-> table],
                     [key |-> "schema", value |-> schema],
                     [key |-> "columns", value |-> JArray(mockSchemas[table.w])],
                     [key |-> "primaryKeys",
                      value |-> JArray(IF Known(DOMAIN mockPrimaryKeys)
                                       THEN mockPrimaryKeys[table.w] ELSE <<>>)]>>))
     ELSE IF done = <<>> THEN Query(ColumnsSql, JArray(<<schema, table>>))
     ELSE IF done[1].rejected
       THEN Throw(ErrorOf(<<"Error getting table schema: ">> \o done[1].message))
     ELSE IF done[1].rowCount = 0
       THEN Throw(ErrorOf(<<"Error getting table schema: ">>
                          \o NotFoundMessage(table, schema)))
     ELSE IF Len(done) = 1
       THEN Query(PkSql, JArray(<<QualifiedName(schema, table)>>))
     ELSE IF done[2].rejected
       THEN Throw(ErrorOf(<<"Error getting table schema: ">> \o done[2].message))
     ELSE Return(SchemaResult(table, schema, done[1], done[2]))

\* insertRecord(table, data, schema = 'public', returning = [])
InsertRecord(table, data, schemaArg, returningArg, done) ==
  LET schema == Default(schemaArg, JText("public"))
      returning == Default(returningArg, JArray(<<>>))
      id == JObject(<<[key |-> "id", value |-> RandomId]>>)
  IN IF mock
       THEN Return(RecordResult([rows |-> <<Spread(data, id)>>, rowCount |-> 1],
                                returning))
     ELSE IF IsNullish(data)
       THEN Throw(ErrorOf(<<"Error inserting record: ">> \o TypeError.message))
     ELSE IF done = <<>>
       THEN LET q == InsertQuery(table, data, schema, returning)
            IN Query(q.sql, JArray(q.values))
     ELSE IF done[1].rejected
       THEN Throw(ErrorOf(<<"Error inserting record: ">> \o done[1].message))
     ELSE Return(RecordResult(done[1], returning))

\* updateRecord(table, data, conditions, schema = 'public', returning = [])
UpdateRecord(table, data, conditions, schemaArg, returningArg, done) ==
  LET schema == Default(schemaArg, JText("public"))
      returning == Default(returningArg, JArray(<<>>))
  IN IF mock
       THEN Return(RecordResult([rows |-> <<Spread(data, conditions)>>,
                                 rowCount |-> 1], returning))
     ELSE IF IsNullish(data) \/ IsNullish(conditions)
       THEN Throw(ErrorOf(<<"Error updating record: ">> \o TypeError.message))
     ELSE IF done = <<>>
       THEN LET q == UpdateQuery(table, data, conditions, schema, returning)
            IN Query(q.sql, JArray(q.values))
     ELSE IF done[1].rejected
       THEN Throw(ErrorOf(<<"Error updating record: ">> \o done[1].message))
     ELSE Return(RecordResult(done[1], returning))

\* deleteRecord(table, conditions, schema = 'public', returning = [])
DeleteRecord(table, conditions, schemaArg, returningArg, done) ==
  LET schema == Default(schemaArg, JText("public"))
      returning == Default(returningArg, JArray(<<>>))
      id == JObject(<<[key |-> "id", value |-> JNum(1)]>>)
  IN IF mock
       THEN Return(RecordResult([rows |-> <<Spread(conditions, id)>>,
                                 rowCount |-> 1], returning))
     ELSE IF IsNullish(conditions)
       THEN Throw(ErrorOf(<<"Error deleting record: ">> \o TypeError.message))
     ELSE IF done = <<>>
       THEN LET q == DeleteQuery(table, conditions, schema, returning)
            IN Query(q.sql, JArray(q.values))
     ELSE IF done[1].rejected
       THEN Throw(ErrorOf(<<"Error deleting record: ">> \o done[1].message))
     ELSE Return(RecordResult(done[1], returning))

\* ------------------------------------------ processRequest and the line
\* { content: [{ type: 'text', text }] }, with isError where it is set.
TextContent(text) ==
  [content |-> <<[type |-> "text", text |-> text]>>, isError |-> JUndefined]

ErrorContent(text) ==
  [content |-> <<[type |-> "text", text |-> text]>>, isError |-> JTrue]

\* ResultResponse that answers with id null.
ResultResponseNullId(result, id) ==
  [jsonrpc |-> "2.0", result |-> TextContent(JSONStringify(result)),
   error |-> JUndefined, id |-> JNull]

\* { jsonrpc: '2.0', result: { content: [...] }, id }
ResultResponse(result, id) ==
  [jsonrpc |-> "2.0", result |-> TextContent(JSONStringify(result)),
   error |-> JUndefined, id |-> id]

\* { jsonrpc: '2.0', error: { code, message }, id }
ErrorResponse(code, message, id) ==
  [jsonrpc |-> "2.0", result |-> JUndefined,
   error |-> [code |-> code, message |-> message], id |-> id]

CallToolMethod == JText("callTool")

\* Switch without the case of delete_record.
SwitchNoDelete(name, args, done) ==
  IF name \notin {JText("query"), JText("get_tables"), JText("get_table_schema"),
                  JText("insert_record"), JText("update_record")}
    THEN [t |-> "default"]
  ELSE IF IsNullish(args) THEN Throw(TypeError)
  ELSE CASE name = JText("query") ->
              ExecuteQuery(Member(args, "sql"), Member(args, "params"), done)
         [] name = JText("get_tables") ->
              GetTables(Member(args, "schema"), done)
         [] name = JText("get_table_schema") ->
              GetTableSchema(Member(args, "table"), Member(args, "schema"), done)
         [] name = JText("insert_record") ->
              InsertRecord(Member(args, "table"), Member(args, "data"),
                           Member(args, "schema"), Member(args, "returning"), done)
         [] name = JText("update_record") ->
              UpdateRecord(Member(args, "table"), Member(args, "data"),
                           Member(args, "conditions"), Member(args, "schema"),
                           Member(args, "returning"), done)

\* The switch over the tool name in processRequest: the step of the tool,
\* or "default" for a name that is no case of the switch.  Each case reads
\* members of args before it calls the tool.
Switch(name, args, done) ==
  IF name \notin {JText("query"), JText("get_tables"), JText("get_table_schema"),
                  JText("insert_record"), JText("update_record"),
                  JText("delete_record")}
    THEN [t |-> "default"]
  ELSE IF IsNullish(args) THEN Throw(TypeError)
  ELSE CASE name = JText("query") ->
              ExecuteQuery(Member(args, "sql"), Member(args, "params"), done)
         [] name = JText("get_tables") ->
              GetTables(Member(args, "schema"), done)
         [] name = JText("get_table_schema") ->
              GetTableSchema(Member(args, "table"), Member(args, "schema"), done)
         [] name = JText("insert_record") ->
              InsertRecord(Member(args, "table"), Member(args, "data"),
                           Member(args, "schema"), Member(args, "returning"), done)
         [] name = JText("update_record") ->
              UpdateRecord(Member(args, "table"), Member(args, "data"),
                           Member(args, "conditions"), Member(args, "schema"),
                           Member(args, "returning"), done)
         [] name = JText("delete_record") ->
              DeleteRecord(Member(args, "table"), Member(args, "conditions"),
                           Member(args, "schema"), Member(args, "returning"), done)

\* processRequest(request): the response it returns, the query it awaits, or
\* the error it throws.  Everything thrown in its try is answered by the
\* catch with code -32000 and request.id; reading request.id of null throws
\* out of the catch.
ProcessRequest(request, done) ==
  IF IsNullish(request) THEN Throw(TypeError)
  ELSE LET method == Member(request, "method")
           params == Member(request, "params")
           id == Member(request, "id")
       IN IF method # CallToolMethod
            THEN Return(ErrorResponse(-32601, <<"Method not found">>, id))
          ELSE IF IsNullish(params)
            THEN Return(ErrorResponse(-32000, TypeError.message, Member(request, "id")))
          ELSE LET name == Member(params, "name")
                   args == Member(params, "arguments")
                   step == Switch(name, args, done)
               IN IF step.t = "default"
                    THEN Return(ErrorResponse(-32601,
                                  <<"Unknown tool: ", TemplateString(name)>>, id))
                  ELSE IF step.t = "query" THEN step
                  ELSE IF step.t = "throw"
                    THEN Return(ErrorResponse(-32000, step.error.message,
                                              Member(request, "id")))
                  ELSE Return(ResultResponse(step.value, id))

\* A line on the child's stdin: text that is not JSON, or the JSON text of a
\* value.
MalformedLine == [t |-> "text"]

JsonLine(value) == [t |-> "json", value |-> value]

\* JSON.parse(line)
ParseLine(line) ==
  IF line.t = "json" THEN [ok |-> TRUE, value |-> line.value]
  ELSE [ok |-> FALSE, value |-> JUndefined]

\* console.log(JSON.stringify(response))
Write(value) == [t |-> "write", value |-> value]

\* rl.on('line'): whatever is thrown in its try, by JSON.parse or by the
\* awaited processRequest, is answered with the parse error.
OnLine(line, done) ==
  IF ~ParseLine(line).ok
    THEN Write(ErrorResponse(-32700, <<"Parse error">>, JNull))
  ELSE LET step == ProcessRequest(ParseLine(line).value, done)
       IN IF step.t = "query" THEN step
          ELSE IF step.t = "throw"
            THEN Write(ErrorResponse(-32700, <<"Parse error">>, JNull))
          ELSE Write(step.value)

\* ------------------------------------------------ the tools of index.js
\* SdkExecuteQuery that lets the rejection of pool.query escape.
SdkExecuteQueryEscapes(args, done) ==
  IF IsNullish(args) THEN Throw(TypeError)
  ELSE LET sql == Member(args, "sql")
           params == Default(Member(args, "params"), JArray(<<>>))
       IN IF done = <<>> THEN Query(sql, params)
          ELSE IF done[1].rejected
            THEN Throw(ErrorOf(<<"SQL error: ">> \o done[1].message))
          ELSE Return(TextContent(JSONStringify(QueryResult(done[1]))))

\* executeQuery({ sql, params = [] }).  The parameter list takes args apart
\* before the try is entered: args undefined throws out of the tool.
SdkExecuteQuery(args, done) ==
  IF IsNullish(args) THEN Throw(TypeError)
  ELSE LET sql == Member(args, "sql")
           params == Default(Member(args, "params"), JArray(<<>>))
       IN IF done = <<>> THEN Query(sql, params)
          ELSE IF done[1].rejected
            THEN Return(ErrorContent(<<"SQL error: ">> \o done[1].message))
          ELSE Return(TextContent(JSONStringify(QueryResult(done[1]))))

\* getTables({ schema = 'public' })
SdkGetTables(args, done) ==
  IF IsNullish(args) THEN Throw(TypeError)
  ELSE LET schema == Default(Member(args, "schema"), JText("public"))
       IN IF done = <<>> THEN Query(TablesSql, JArray(<<schema>>))
          ELSE IF done[1].rejected
            THEN Return(ErrorContent(<<"Error getting tables: ">> \o done[1].message))
          ELSE Return(TextContent(JSONStringify(TablesResult(done[1]))))

\* getTableSchema({ table, schema = 'public' })
SdkGetTableSchema(args, done) ==
  IF IsNullish(args) THEN Throw(TypeError)
  ELSE LET table == Member(args, "table")
           schema == Default(Member(args, "schema"), JText("public"))
       IN IF done = <<>> THEN Query(ColumnsSql, JArray(<<schema, table>>))
          ELSE IF done[1].rejected
            THEN Return(ErrorContent(<<"Error getting table schema: ">>
                                     \o done[1].message))
          ELSE IF done[1].rowCount = 0
            THEN Return(ErrorContent(NotFoundMessage(table, schema)))
          ELSE IF Len(done) = 1
            THEN Query(PkSql, JArray(<<QualifiedName(schema, table)>>))
          ELSE IF done[2].rejected
            THEN Return(ErrorContent(<<"Error getting table schema: ">>
                                     \o done[2].message))
          ELSE Return(TextContent(JSONStringify(
                        SchemaResult(table, schema, done[1], done[2]))))

\* insertRecord({ table, data, schema = 'public', returning = [] })
SdkInsertRecord(args, done) ==
  IF IsNullish(args) THEN Throw(TypeError)
  ELSE LET table == Member(args, "table")
           data == Member(args, "data")
           schema == Default(Member(args, "schema"), JText("public"))
           returning == Default(Member(args, "returning"), JArray(<<>>))
       IN IF IsNullish(data)
            THEN Return(ErrorContent(<<"Error inserting record: ">> \o TypeError.message))
          ELSE IF done = <<>>
            THEN LET q == InsertQuery(table, data, schema, returning)
                 IN Query(q.sql, JArray(q.values))
          ELSE IF done[1].rejected
            THEN Return(ErrorContent(<<"Error inserting record: ">> \o done[1].message))
          ELSE Return(TextContent(JSONStringify(RecordResult(done[1], returning))))

\* updateRecord({ table, data, conditions, schema = 'public', returning = [] })
SdkUpdateRecord(args, done) ==
  IF IsNullish(args) THEN Throw(TypeError)
  ELSE LET table == Member(args, "table")
           data == Member(args, "data")
           conditions == Member(args, "conditions")
           schema == Default(Member(args, "schema"), JText("public"))
           returning == Default(Member(args, "returning"), JArray(<<>>))
       IN IF IsNullish(data) \/ IsNullish(conditions)
            THEN Return(ErrorContent(<<"Error updating record: ">> \o TypeError.message))
          ELSE IF done = <<>>
            THEN LET q == UpdateQuery(table, data, conditions, schema, returning)
                 IN Query(q.sql, JArray(q.values))
          ELSE IF done[1].rejected
            THEN Return(ErrorContent(<<"Error updating record: ">> \o done[1].message))
          ELSE Return(TextContent(JSONStringify(RecordResult(done[1], returning))))

\* deleteRecord({ table, conditions, schema = 'public', returning = [] })
SdkDeleteRecord(args, done) ==
  IF IsNullish(args) THEN Throw(TypeError)
  ELSE LET table == Member(args, "table")
           conditions == Member(args, "conditions")
           schema == Default(Member(args, "schema"), JText("public"))
           returning == Default(Member(args, "returning"), JArray(<<>>))
       IN IF IsNullish(conditions)
            THEN Return(ErrorContent(<<"Error deleting record: ">> \o TypeError.message))
          ELSE IF done = <<>>
            THEN LET q == DeleteQuery(table, conditions, schema, returning)
                 IN Query(q.sql, JArray(q.values))
          ELSE IF done[1].rejected
            THEN Return(ErrorContent(<<"Error deleting record: ">> \o done[1].message))
          ELSE Return(TextContent(JSONStringify(RecordResult(done[1], returning))))

\* SdkSwitch whose default runs the query tool.
SdkSwitchDefaultQuery(name, args, done) ==
  CASE name = JText("query") -> SdkExecuteQuery(args, done)
    [] name = JText("get_tables") -> SdkGetTables(args, done)
    [] name = JText("get_table_schema") -> SdkGetTableSchema(args, done)
    [] name = JText("insert_record") -> SdkInsertRecord(args, done)
    [] name = JText("update_record") -> SdkUpdateRecord(args, done)
    [] name = JText("delete_record") -> SdkDeleteRecord(args, done)
    [] OTHER -> SdkExecuteQuery(args, done)

\* The switch over the tool name in the CallTool handler.
SdkSwitch(name, args, done) ==
  CASE name = JText("query") -> SdkExecuteQuery(args, done)
    [] name = JText("get_tables") -> SdkGetTables(args, done)
    [] name = JText("get_table_schema") -> SdkGetTableSchema(args, done)
    [] name = JText("insert_record") -> SdkInsertRecord(args, done)
    [] name = JText("update_record") -> SdkUpdateRecord(args, done)
    [] name = JText("delete_record") -> SdkDeleteRecord(args, done)
    [] OTHER -> Throw(McpError(MethodNotFound,
                               <<"Unknown tool: ", TemplateString(name)>>))

\* The handler of CallToolRequestSchema: an McpError thrown in its try is
\* thrown on, anything else thrown becomes an McpError with InternalError.
CallToolHandler(request, done) ==
  LET params == Member(request, "params")
      name == Member(params, "name")
      args == Member(params, "arguments")
      step == SdkSwitch(name, args, done)
  IN IF step.t = "throw" /\ step.error.name # "McpError"
       THEN Throw(McpError(InternalError,
                           <<"Database operation error: ">> \o step.error.message))
     ELSE step

\* --------------------------------------------------- requests and outcomes
ToolNames ==
  {"query", "get_tables", "get_table_schema", "insert_record", "update_record",
   "delete_record"}

\* The members data and conditions are built from.
Fields ==
  <<[key |-> "id", value |-> JNum(1)], [key |-> "name", value |-> JNum(2)],
    [key |-> "email", value |-> JNum(3)], [key |-> "age", value |-> JNum(4)]>>

\* The objects of at most MaxEntries members, in every order of the members.
Objects ==
  LET F == {Fields[i] : i \in 1..MaxEntries}
  IN {JObject(s) : s \in UNION {{q \in [1..n -> F] :
                                   \A i, j \in 1..n : i # j => q[i] # q[j]} :
                                n \in 0..MaxEntries}}

Optional(S) == S \cup {JUndefined}

Tables == Optional({JText("users")})

Schemas == Optional({JText("app")})

Returnings ==
  Optional({JArray(<<>>), JArray(<<JText("id")>>),
            JArray(<<JText("name"), JText("id")>>)})

\* The arguments objects a caller may send with a tool name.
ArgumentsOf(name) ==
  CASE name = "query" ->
         {Obj(<<[key |-> "sql", value |-> sql], [key |-> "params", value |-> params]>>) :
            sql \in Optional({SqlText(<<"SELECT 1">>)}),
            params \in Optional({JArray(<<>>), JArray(<<JNum(5)>>)})}
    [] name = "get_tables" ->
         {Obj(<<[key |-> "schema", value |-> schema]>>) : schema \in Schemas}
    [] name = "get_table_schema" ->
         {Obj(<<[key |-> "table", value |-> table], [key |-> "schema", value |-> schema]>>) :
            table \in Tables, schema \in Schemas}
    [] name = "insert_record" ->
         {Obj(<<[key |-> "table", value |-> table], [key |-> "data", value |-> data],
                [key |-> "schema", value |-> schema],
                [key |-> "returning", value |-> returning]>>) :
            table \in Tables, data \in Optional(Objects), schema \in Schemas,
            returning \in Returnings}
    [] name = "update_record" ->
         {Obj(<<[key |-> "table", value |-> table], [key |-> "data", value |-> data],
                [key |-> "conditions", value |-> conditions],
                [key |-> "schema", value |-> schema],
                [key |-> "returning", value |-> returning]>>) :
            table \in Tables, data \in Optional(Objects),
            conditions \in Optional(Objects), schema \in Schemas,
            returning \in Returnings}
    [] name = "delete_record" ->
         {Obj(<<[key |-> "table", value |-> table],
                [key |-> "conditions", value |-> conditions],
                [key |-> "schema", value |-> schema],
                [key |-> "returning", value |-> returning]>>) :
            table \in Tables, conditions \in Optional(Objects), schema \in Schemas,
            returning \in Returnings}
    [] OTHER ->
         {Obj(<<>>), Obj(<<[key |-> "sql", value |-> SqlText(<<"SELECT 1">>)]>>)}

\* params of a tool call: a name, known or not, and arguments or none.
ToolCalls ==
  {Obj(<<[key |-> "name", value |-> JText(name)], [key |-> "arguments", value |-> args]>>) :
     name \in ToolNames \cup {"drop_table"}, args \in {JUndefined}}
  \cup UNION {{Obj(<<[key |-> "name", value |-> JText(name)],
                     [key |-> "arguments", value |-> args]>>) :
                 args \in ArgumentsOf(name)} : name \in ToolNames \cup {"drop_table"}}

\* params with no name.
NamelessCall == Obj(<<[key |-> "arguments", value |-> Obj(<<>>)]>>)

RequestIds == {JStr(<<"1">>), JStr(<<"2">>), JUndefined}

\* The lines the child may read: text that is not JSON, the JSON text null,
\* and request objects with and without method, params and id.
Lines ==
  {MalformedLine, JsonLine(JNull)}
  \cup {JsonLine(Obj(<<[key |-> "jsonrpc", value |-> JText("2.0")],
                       [key |-> "method", value |-> CallToolMethod],
                       [key |-> "params", value |-> params],
                       [key |-> "id", value |-> id]>>)) :
          params \in Optional(ToolCalls \cup {NamelessCall}), id \in RequestIds}
  \cup {JsonLine(Obj(<<[key |-> "jsonrpc", value |-> JText("2.0")],
                       [key |-> "method", value |-> method],
                       [key |-> "params", value |-> params],
                       [key |-> "id", value |-> id]>>)) :
          method \in Optional({JText("listTools")}),
          params \in Optional({NamelessCall}), id \in RequestIds}

\* The requests the SDK hands to the CallTool handler: it has checked that
\* params.name is a string and that params.arguments, where present, is an
\* object.
CallToolRequests ==
  {Obj(<<[key |-> "method", value |-> JText("tools/call")],
         [key |-> "params", value |-> params]>>) : params \in ToolCalls}

\* The rows pool.query resolves with.
TableNames == <<"orders", "products", "users", "vendors">>

Row(i) ==
  JObject(<<[key |-> "id", value |-> JNum(6 + i)],
            [key |-> "table_name", value |-> JText(TableNames[i])],
            [key |-> "column_name", value |-> JText("id")]>>)

\* A result of pool.query: rowCount rows, or rowCount affected rows and no
\* rows returned.
PoolResults ==
  {Resolved([i \in 1..n |-> Row(i)], n) : n \in 0..MaxRows}
  \cup {Resolved(<<>>, n) : n \in 0..MaxRows}

PoolErrors == {<<"relation does not exist">>}

\* ---------------------------------------------------- the tools' actions
BridgeIdle ==
  /\ currentId = 1
  /\ pendingRequests = {}
  /\ calls = <<>>
  /\ buffer = <<>>
  /\ errorLog = 0
  /\ alive = TRUE
  /\ stdin = <<>>
  /\ handlers = {}
  /\ received = 0
  /\ lastEmitted = 0
  /\ pipe = <<>>
  /\ noise = 0
  /\ lastLines = <<>>
  /\ fed = <<>>
  /\ lines = <<>>

InitTools ==
  /\ BridgeIdle
  /\ server \in {"simple", "sdk"}
  /\ input \in (IF server = "simple" THEN Lines ELSE CallToolRequests)
  /\ pc = "start"
  /\ poolCalls = <<>>
  /\ produced = [t |-> "none"]
  /\ mock = FALSE
  /\ boot = "running"
  /\ connects = 1
  /\ history = <<>>

\* The outcomes of the pool.query calls of these calls.
OutcomesOf(made) == [i \in 1..Len(made) |-> made[i].outcome]

\* The handler of the input, given the outcomes awaited so far.
Handler(done) ==
  IF server = "simple" THEN OnLine(input, done) ELSE CallToolHandler(input, done)

\* The handler runs on to its next await pool.query, where the call is made,
\* or to its end.
Advance(made) ==
  \E step \in {Handler(OutcomesOf(made))} :
     IF step.t = "query"
     THEN /\ poolCalls' = Append(made, [sql |-> step.sql, params |-> step.params,
                                        outcome |-> PendingQuery])
          /\ pc' = "await"
          /\ UNCHANGED produced
     ELSE /\ poolCalls' = made
          /\ pc' = "done"
          /\ produced' = step

\* simple-server reads the line: rl.on('line').
Line ==
  /\ server = "simple"
  /\ pc = "start"
  /\ Advance(poolCalls)
  /\ UNCHANGED <<server, input>>
  /\ UNCHANGED processVars
  /\ UNCHANGED bridgeVars

\* The SDK server calls the handler of CallToolRequestSchema.
CallTool ==
  /\ server = "sdk"
  /\ pc = "start"
  /\ Advance(poolCalls)
  /\ UNCHANGED <<server, input>>
  /\ UNCHANGED processVars
  /\ UNCHANGED bridgeVars

\* The pool.query awaited resolves, and the handler runs on.
PoolResolves ==
  /\ pc = "await"
  /\ \E result \in PoolResults :
       Advance([poolCalls EXCEPT ![Len(poolCalls)].outcome = result])
  /\ UNCHANGED <<server, input>>
  /\ UNCHANGED processVars
  /\ UNCHANGED bridgeVars

\* The pool.query awaited rejects, and the handler runs on.
PoolRejects ==
  /\ pc = "await"
  /\ \E message \in PoolErrors :
       Advance([poolCalls EXCEPT ![Len(poolCalls)].outcome = Rejected(message)])
  /\ UNCHANGED <<server, input>>
  /\ UNCHANGED processVars
  /\ UNCHANGED bridgeVars

NextTools ==
  \/ Line
  \/ CallTool
  \/ PoolResolves
  \/ PoolRejects

SpecTools == InitTools /\ [][NextTools]_vars

\* ------------------------------------------------- bridge and simple-server
\* The bridge with simple-server as its child, under a caller that awaits the
\* answer to each request before it makes the next, as test-api.js does, and
\* a child that answers before the 30 s of the request timer are over.

\* U+2028, as a character of a string.
LineSeparator == "U+2028"

\* The bodies of the requests of test-api.js, each with the id the caller
\* gave it, and bodies that name no tool of the child, that have another
\* method and no id, and that carry a line separator in a string.
Bodies ==
  LET Body(name, args) ==
        Obj(<<[key |-> "jsonrpc", value |-> JText("2.0")],
              [key |-> "method", value |-> CallToolMethod],
              [key |-> "params",
               value |-> Obj(<<[key |-> "name", value |-> JText(name)],
                               [key |-> "arguments", value |-> Obj(args)]>>)],
              [key |-> "id", value |-> JStr(<<"9", "9">>)]>>)
      users == [key |-> "table", value |-> JText("users")]
      returning == [key |-> "returning", value |-> JArray(<<JText("id")>>)]
  IN {Body("get_tables", <<>>),
      Body("get_table_schema", <<users>>),
      Body("query", <<[key |-> "sql",
                       value |-> SqlText(<<"SELECT", " * ", "FROM users">>)]>>),
      Body("insert_record",
           <<users, [key |-> "data", value |-> JObject(<<Fields[2], Fields[3]>>)],
             returning>>),
      Body("update_record",
           <<users, [key |-> "data", value |-> JObject(<<Fields[3]>>)],
             [key |-> "conditions", value |-> JObject(<<Fields[1]>>)], returning>>),
      Body("delete_record",
           <<users, [key |-> "conditions", value |-> JObject(<<Fields[1]>>)],
             returning>>),
      Body("drop_table", <<>>),
      Obj(<<[key |-> "jsonrpc", value |-> JText("2.0")],
            [key |-> "method", value |-> JText("listTools")]>>),
      Body("query", <<[key |-> "sql",
                       value |-> SqlText(<<"SELECT", " '", LineSeparator, "'">>)]>>)}

\* The lines readline makes of JSON.stringify(request) + '\n'.  JSON.stringify
\* writes a line separator in a string as it is and readline ends a line at
\* it, so a request with n of them arrives as n + 1 lines that are no JSON.
\* Of the bodies above only the sql argument can hold one.
Readline(request) ==
  LET sql == Member(Member(Member(request, "params"), "arguments"), "sql")
      n == IF sql.ty = "string"
           THEN Cardinality({i \in 1..Len(sql.text) : sql.text[i] = LineSeparator})
           ELSE 0
  IN IF n = 0 THEN <<JsonLine(request)>> ELSE [i \in 1..(n + 1) |-> MalformedLine]

\* PostCall that leaves the id of the body in the request where it has one.
PostCallKeepsId(body) ==
  /\ alive
  /\ Len(calls) < MaxRequests
  /\ LET requestId == currentId
         request == Spread(JObject(<<[key |-> "id",
                                      value |-> JStr(NumberToString(requestId))]>>),
                           body)
     IN /\ currentId' = currentId + 1
        /\ calls' = Append(calls,
             [requestId |-> requestId, timer |-> "armed", age |-> 0,
              promise |-> "pending", settles |-> 0, reply |-> NoReply,
              handler |-> "await", sent |-> 0,
              body |-> body])
        /\ pendingRequests' = MapSet(pendingRequests, requestId, Len(calls) + 1)
        /\ stdin' = stdin \o Readline(request)
  /\ UNCHANGED <<buffer, errorLog, alive, handlers, received, lastEmitted,
                 pipe, noise, fed, lines>>
  /\ lastLines' = <<>>
  /\ UNCHANGED toolVars

\* app.post('/api/mcp') with its body, up to 'await responsePromise':
\* request = { ...req.body, id: requestId.toString() }, and the line
\* JSON.stringify(request) + '\n' is written to the child.
PostCall(body) ==
  /\ alive
  /\ Len(calls) < MaxRequests
  /\ LET requestId == currentId
         request == Spread(body, JObject(<<[key |-> "id",
                                            value |-> JStr(NumberToString(requestId))]>>))
     IN /\ currentId' = currentId + 1
        /\ calls' = Append(calls,
             [requestId |-> requestId, timer |-> "armed", age |-> 0,
              promise |-> "pending", settles |-> 0, reply |-> NoReply,
              handler |-> "await", sent |-> 0,
              body |-> body])
        /\ pendingRequests' = MapSet(pendingRequests, requestId, Len(calls) + 1)
        /\ stdin' = stdin \o Readline(request)
  /\ UNCHANGED <<buffer, errorLog, alive, handlers, received, lastEmitted,
                 pipe, noise, fed, lines>>
  /\ lastLines' = <<>>
  /\ UNCHANGED toolVars

\* The caller makes its next request when all it made were answered.
ClientPosts ==
  /\ \A c \in 1..Len(calls) : calls[c].reply # NoReply
  /\ \E body \in Bodies : PostCall(body)

\* testConnection() as main() calls it when the child starts: in mock mode
\* it returns at once, otherwise it awaits pool.connect().
TestConnection(mockMode) ==
  IF mockMode THEN [boot |-> "running", connects |-> 0]
  ELSE [boot |-> "connecting", connects |-> 1]

InitSystem ==
  /\ BridgeIdle
  /\ server = "simple"
  /\ input = [t |-> "text"]
  /\ pc = "idle"
  /\ poolCalls = <<>>
  /\ produced = [t |-> "none"]
  /\ mock \in BOOLEAN
  /\ boot = TestConnection(mock).boot
  /\ connects = TestConnection(mock).connects
  /\ history = <<>>

\* pool.connect() resolves: main() goes on to its end.
ConnectResolves ==
  /\ alive
  /\ boot = "connecting"
  /\ boot' = "running"
  /\ lastLines' = <<>>
  /\ UNCHANGED <<currentId, pendingRequests, calls, buffer, errorLog, alive,
                 stdin, handlers, received, lastEmitted, pipe, noise, fed, lines>>
  /\ UNCHANGED <<server, input, pc, poolCalls, produced, mock, connects, history>>

\* pool.connect() rejects: testConnection returns false and main() calls
\* process.exit(1).
ConnectRejects ==
  /\ alive
  /\ boot = "connecting"
  /\ boot' = "exited"
  /\ lastLines' = <<>>
  /\ UNCHANGED <<currentId, pendingRequests, calls, buffer, errorLog, alive,
                 stdin, handlers, received, lastEmitted, pipe, noise, fed, lines>>
  /\ UNCHANGED <<server, input, pc, poolCalls, produced, mock, connects, history>>

\* mcpProcess.on('close') after the child has exited.
ChildExited ==
  /\ boot = "exited"
  /\ ChildClose

\* The characters console.log(JSON.stringify(response)) writes before the
\* newline: the envelope of the response.
StdoutLine(response) ==
  [t |-> "msg", id |-> response.id,
   kind |-> IF response.error # JUndefined THEN "error" ELSE "result",
   value |-> response]

\* ChildRun that writes nothing where the response is an error.
ChildRunSilentOnError(line, made) ==
  \E step \in {OnLine(line, OutcomesOf(made))} :
     IF step.t = "query"
     THEN /\ poolCalls' = Append(made, [sql |-> step.sql, params |-> step.params,
                                        outcome |-> PendingQuery])
          /\ pc' = "await"
          /\ UNCHANGED <<produced, pipe>>
     ELSE /\ Len(pipe) + 2 <= MaxPipe
          /\ poolCalls' = made
          /\ pc' = "done"
          /\ produced' = step
          /\ pipe' = IF step.value.error # JUndefined THEN pipe
                     ELSE WriteLine(<<StdoutLine(step.value)>>)

\* The line handler runs on to its next await pool.query, where the call is
\* made, or to its end, where it writes its response.
ChildRun(line, made) ==
  \E step \in {OnLine(line, OutcomesOf(made))} :
     IF step.t = "query"
     THEN /\ poolCalls' = Append(made, [sql |-> step.sql, params |-> step.params,
                                        outcome |-> PendingQuery])
          /\ pc' = "await"
          /\ UNCHANGED <<produced, pipe>>
     ELSE /\ Len(pipe) + 2 <= MaxPipe
          /\ poolCalls' = made
          /\ pc' = "done"
          /\ produced' = step
          /\ pipe' = WriteLine(<<StdoutLine(step.value)>>)

\* rl.on('line'): the child reads its next line.  Under this caller no line
\* arrives while a handler is suspended.
ChildReads ==
  /\ alive
  /\ boot \in {"connecting", "running"}
  /\ stdin # <<>>
  /\ pc \in {"idle", "done"}
  /\ input' = Head(stdin)
  /\ stdin' = Tail(stdin)
  /\ received' = received + 1
  /\ history' = IF pc = "done"
                THEN Append(history, [input |-> input, poolCalls |-> poolCalls,
                                      produced |-> produced])
                ELSE history
  /\ ChildRun(Head(stdin), <<>>)
  /\ lastLines' = <<>>
  /\ UNCHANGED <<currentId, pendingRequests, calls, buffer, errorLog, alive,
                 handlers, lastEmitted, noise, fed, lines>>
  /\ UNCHANGED <<server, mock, boot, connects>>

\* What pool.query settles with where the child runs under the bridge.
ChildPoolResults == {Resolved(<<Row(1)>>, 1), Rejected(<<"relation does not exist">>)}

\* The pool.query awaited by the child settles, and the handler runs on.
ChildPoolSettles ==
  /\ alive
  /\ boot \in {"connecting", "running"}
  /\ pc = "await"
  /\ \E outcome \in ChildPoolResults :
       ChildRun(input, [poolCalls EXCEPT ![Len(poolCalls)].outcome = outcome])
  /\ lastLines' = <<>>
  /\ UNCHANGED <<currentId, pendingRequests, calls, buffer, errorLog, alive,
                 stdin, handlers, received, lastEmitted, noise, fed, lines>>
  /\ UNCHANGED <<server, input, mock, boot, connects, history>>

NextSystem ==
  \/ ClientPosts
  \/ ConnectResolves
  \/ ConnectRejects
  \/ ChildExited
  \/ ChildReads
  \/ ChildPoolSettles
  \/ StdoutData

SpecSystem == InitSystem /\ [][NextSystem]_vars

\* ------------------------------------------------- simple-server by itself
\* A caller on the child's stdin that writes its next line when the last one
\* has been answered: text that is no JSON, the JSON texts null and {},
\* requests without params, without a tool name and without arguments, calls
\* of tools and a call of an unknown tool.
CallerWrites ==
  /\ alive
  /\ stdin = <<>>
  /\ pc \in {"idle", "done"}
  /\ received < MaxRequests
  /\ LET Request(params) ==
           JsonLine(Obj(<<[key |-> "jsonrpc", value |-> JText("2.0")],
                          [key |-> "method", value |-> CallToolMethod],
                          [key |-> "params", value |-> params],
                          [key |-> "id", value |-> JStr(<<"1">>)]>>))
         Call(name, args) ==
           Obj(<<[key |-> "name", value |-> JText(name)],
                 [key |-> "arguments", value |-> args]>>)
     IN \E line \in {MalformedLine, JsonLine(JNull), JsonLine(Obj(<<>>)),
                      Request(JUndefined), Request(NamelessCall),
                      Request(Call("query", JUndefined)),
                      Request(Call("get_tables", Obj(<<>>))),
                      Request(Call("get_table_schema",
                                   Obj(<<[key |-> "table", value |-> JText("users")]>>))),
                      Request(Call("drop_table", Obj(<<>>)))} :
          stdin' = <<line>>
  /\ lastLines' = <<>>
  /\ UNCHANGED <<currentId, pendingRequests, calls, buffer, errorLog, alive,
                 handlers, received, lastEmitted, pipe, noise, fed, lines>>
  /\ UNCHANGED toolVars

\* The child, its database and the reader of its stdout.
NextLines ==
  \/ CallerWrites
  \/ ConnectResolves
  \/ ChildReads
  \/ ChildPoolSettles
  \/ StdoutData

SpecLines == InitSystem /\ [][NextLines]_vars

\* ---------------------------------------------------- terms of the claims
\* A text split at its newlines, character by character: n newlines give
\* n + 1 pieces.  The lines of the text are all pieces but the last, and the
\* last piece is what follows the last newline.
RECURSIVE SplitAtNL(_)
SplitAtNL(T) ==
  IF T = <<>> THEN << <<>> >>
  ELSE LET r == SplitAtNL(Tail(T))
       IN IF Head(T) = NL THEN << <<>> >> \o r
          ELSE << <<Head(T)>> \o r[1] >> \o Tail(r)

SegmentsOf(T) == SubSeq(SplitAtNL(T), 1, Len(SplitAtNL(T)) - 1)

RemainderOf(T) == SplitAtNL(T)[Len(SplitAtNL(T))]

Calls == 1..Len(calls)

\* The id string the bridge sent for POST number c.
SentId(c) == JStr(NumberToString(calls[c].requestId))

\* POST number c still has its entry in pendingRequests.
Pending(c) ==
  /\ c \in Calls
  /\ [key |-> calls[c].requestId, call |-> c] \in pendingRequests

\* The step is a 'data' event; lastLines' are the lines it extracted.
IsDataStep == Len(pipe') < Len(pipe)

IsResponseTo(line, c) == JSONParse(line).ok /\ JSONParse(line).value.id = SentId(c)

\* The response to POST number c is nowhere on its way any more.
ResponseConsumed(c) ==
  /\ c \in Calls
  /\ received >= c
  /\ \A h \in handlers : h.id # SentId(c)
  /\ \A i \in 1..Len(pipe) : pipe[i].t = "msg" => pipe[i].id # SentId(c)
  /\ \A i \in 1..Len(buffer) : buffer[i].t = "msg" => buffer[i].id # SentId(c)

\* ------------------------------------------------------------------ claims
\* C1: a response line carrying the id string sent for a pending request
\* resolves that request, whatever the order of arrival, and each caller that
\* is answered with a response holds the response carrying its own id.
C1_OwnReply ==
  \A c \in Calls :
    calls[c].reply.status = 200 => calls[c].reply.body.id = SentId(c)

C1_ResolvesOwn ==
  IsDataStep =>
    \A c \in Calls : \A j \in 1..Len(lastLines') :
      (Pending(c) /\ IsResponseTo(lastLines'[j], c)) =>
        /\ ~MapHas(pendingRequests', calls[c].requestId)
        /\ calls'[c].promise = "fulfilled"
        /\ calls'[c].reply = OkReply(JSONParse(lastLines'[j]).value)

\* C1: every caller's reply carries its own id, and a response line resolves
\* the pending request of its id.
C1_IdMatching == [](C1_OwnReply) /\ [][C1_ResolvesOwn]_vars

\* C1 witness: two requests were answered by one chunk that carried the
\* response to the second before the response to the first.
C1_Witness ==
  /\ Len(calls) >= 2
  /\ Len(lastLines) = 2
  /\ IsResponseTo(lastLines[1], 2)
  /\ IsResponseTo(lastLines[2], 1)
  /\ calls[1].reply.status = 200
  /\ calls[2].reply.status = 200

\* C2: a request is completed once, by its timer or by its response,
\* whichever comes first; its entry is in pendingRequests exactly until then,
\* and afterwards neither event completes it again.
C2_CompletedOnce ==
  \A c \in Calls :
    /\ calls[c].settles <= 1
    /\ Pending(c) <=> calls[c].settles = 0
    /\ Pending(c) <=> calls[c].timer = "armed"
    /\ Pending(c) <=> calls[c].promise = "pending"
    /\ ~Pending(c) => ~MapHas(pendingRequests, calls[c].requestId)
    /\ calls[c].promise = "fulfilled" =>
         calls[c].timer = "cleared" /\ calls[c].reply.status = 200
    /\ calls[c].promise = "rejected" =>
         calls[c].timer = "fired" /\ calls[c].reply.status = 500

\* C2 witness: one request was rejected by its timer and its response came
\* afterwards, another was resolved by its response and its timer cleared.
C2_Witness ==
  \E c, d \in Calls :
    /\ calls[c].promise = "rejected"
    /\ ResponseConsumed(c)
    /\ calls[d].promise = "fulfilled"
    /\ calls[d].timer = "cleared"

\* C3: a response line for a request already evicted by its timer changes
\* nothing: no entry is created for it, its caller's outcome stays, and a
\* 'data' event that carries only such lines leaves pendingRequests, every
\* request and the error report count as they were.
IsLate(line) ==
  \E c \in Calls : calls[c].timer = "fired" /\ IsResponseTo(line, c)

C3_LateResponseDiscarded ==
  IsDataStep =>
    /\ \A c \in Calls : \A j \in 1..Len(lastLines') :
         (calls[c].timer = "fired" /\ IsResponseTo(lastLines'[j], c)) =>
           /\ ~MapHas(pendingRequests', calls[c].requestId)
           /\ calls'[c] = calls[c]
    /\ (\A j \in 1..Len(lastLines') : IsLate(lastLines'[j])) =>
         /\ pendingRequests' = pendingRequests
         /\ calls' = calls
         /\ errorLog' = errorLog

\* C3: every step discards the response lines of evicted requests.
C3_LateResponse == [][C3_LateResponseDiscarded]_vars

\* C3 witness: the last 'data' event carried the response to a request whose
\* timer had fired, while another request is pending.
C3_Witness ==
  \E c, d \in Calls :
    /\ calls[c].timer = "fired"
    /\ Len(lastLines) = 1
    /\ IsResponseTo(lastLines[1], c)
    /\ Pending(d)

\* C4: when the timer of a request fires, its entry is removed and its caller
\* is answered with status 500, code -32000 and the timed-out message; every
\* entry of a running bridge is eventually removed; and the entries never
\* outnumber the requests begun within the last timeout period.
C4_TimerEvicts ==
  \A c \in Calls :
    (calls[c].timer = "armed" /\ calls'[c].timer = "fired") =>
      /\ ~MapHas(pendingRequests', calls[c].requestId)
      /\ calls'[c].reply.status = 500
      /\ calls'[c].reply.code = -32000
      /\ calls'[c].reply.message =
           <<"MCP server error: ", "MCP request timed out after 30 seconds">>

C4_PendingBound ==
  Cardinality(pendingRequests)
    <= Cardinality({c \in Calls : calls[c].age <= TimeoutTicks})

C5_ExactIdMatch ==
  IsDataStep =>
    \A c \in Calls :
      (Pending(c) /\ ~MapHas(pendingRequests', calls[c].requestId)) =>
        \E j \in 1..Len(lastLines') : IsResponseTo(lastLines'[j], c)

\* C5: in every step, only a line with exactly its id string resolves a request.
C5_ExactMatch == [][C5_ExactIdMatch]_vars

\* C6: however the bytes are cut into chunks, the lines extracted so far are
\* the newline-terminated segments of the text of all bytes delivered so far,
\* and the buffer is the text after its last newline.
C6_ChunkIndependence ==
  /\ lines = SegmentsOf(Utf8Decode(fed))
  /\ buffer = RemainderOf(Utf8Decode(fed))

\* C7: every line that does not parse is reported, and the lines after it are
\* still extracted and matched: a 'data' event extracts all complete lines of
\* buffer and chunk, reports as many errors as there are unparseable lines
\* among them, and resolves every pending request whose response is among them.
C7_ReportsAndContinues ==
  IsDataStep =>
    LET chunk == SubSeq(pipe, 1, Len(pipe) - Len(pipe'))
        text == buffer \o Utf8Decode(chunk)
    IN /\ lastLines' = SegmentsOf(text)
       /\ buffer' = RemainderOf(text)
       /\ errorLog' = errorLog
            + Cardinality({j \in 1..Len(lastLines') : ~JSONParse(lastLines'[j]).ok})
       /\ \A c \in Calls : \A j \in 1..Len(lastLines') :
            (Pending(c) /\ IsResponseTo(lastLines'[j], c)) =>
              calls'[c].reply = OkReply(JSONParse(lastLines'[j]).value)

\* C7: every step reports its unparseable lines and goes on with the rest.
C7_MalformedLine == [][C7_ReportsAndContinues]_vars

\* C7 witness: the last 'data' event extracted a line that does not parse and,
\* after it, the response of a request, which was resolved by it.
C7_Witness ==
  /\ Len(lastLines) = 2
  /\ ~JSONParse(lastLines[1]).ok
  /\ errorLog >= 1
  /\ \E c \in Calls :
       /\ IsResponseTo(lastLines[2], c)
       /\ calls[c].reply = OkReply(JSONParse(lastLines[2]).value)

\* C8: a 'data' event that carries a malformed line or a parse-error response
\* leaves every pending request whose own response it does not carry as it
\* was, entry and timer, and resolves those whose response it carries.
IsTransportError(line) ==
  \/ ~JSONParse(line).ok
  \/ JSONParse(line).value = ParseErrorResponse

C8_OthersUntouched ==
  (IsDataStep /\ \E j \in 1..Len(lastLines') : IsTransportError(lastLines'[j])) =>
    \A c \in Calls :
      Pending(c) =>
        IF \E j \in 1..Len(lastLines') : IsResponseTo(lastLines'[j], c)
        THEN calls'[c].promise = "fulfilled"
        ELSE /\ [key |-> calls[c].requestId, call |-> c] \in pendingRequests'
             /\ calls'[c] = calls[c]

\* C8: every step with a transport error leaves the other requests untouched.
C8_TransportErrorFrame == [][C8_OthersUntouched]_vars

\* C8 witness: the last 'data' event carried only a malformed line or a
\* parse-error response while two requests were pending, and both still have
\* their entries and armed timers.
C8_Witness ==
  /\ Len(lastLines) = 1
  /\ IsTransportError(lastLines[1])
  /\ Len(calls) >= 2
  /\ \A c \in Calls : Pending(c) /\ calls[c].timer = "armed"
  /\ pipe = <<>>

\* C9: the ids of the requests are strictly increasing in the order the
\* requests were made, the entries of pendingRequests have distinct keys, each
\* the id of its own request, and the next id is above all ids given out.
C9_IdsIncrease ==
  /\ \A c, d \in Calls : c < d => calls[c].requestId < calls[d].requestId
  /\ \A c \in Calls : calls[c].requestId < currentId
  /\ \A e \in pendingRequests : e.call \in Calls /\ calls[e.call].requestId = e.key
  /\ \A e, f \in pendingRequests : e.key = f.key => e = f

\* C9 witness: a request was registered after an earlier one had been evicted
\* and a tick had passed.
C9_Witness ==
  \E c, d \in Calls :
    /\ c < d
    /\ calls[c].timer = "fired"
    /\ calls[c].age > TimeoutTicks
    /\ calls[d].age = 0
    /\ Pending(d)

\* C10: the child handles one request line at a time: no two handlers are in
\* progress together, and the responses are written in the order in which the
\* request lines were read.
C10_OneAtATime == Cardinality(handlers) <= 1

C10_InOrder == lastEmitted' >= lastEmitted

\* C10: never two handlers in progress, and responses in request order.
C10_SerialChild == [](C10_OneAtATime) /\ [][C10_InOrder]_vars

\* ------------------------------------------- terms of the tools' claims
\* The request the handler answers: the value JSON.parse gave for the line,
\* or the request handed to the CallTool handler.
TheRequest == IF server = "simple" THEN ParseLine(input).value ELSE input

\* A tool call: a request with method callTool (simple-server) whose params is
\* an object.
IsToolCall ==
  /\ pc # "idle"
  /\ TheRequest.ty = "object"
  /\ server = "simple" => Member(TheRequest, "method") = CallToolMethod
  /\ Member(TheRequest, "params").ty = "object"

CallName == Member(Member(TheRequest, "params"), "name")

CallArgs == Member(Member(TheRequest, "params"), "arguments")

KnownTool == \E n \in ToolNames : CallName = JText(n)

IsCallOf(n) == IsToolCall /\ CallName = JText(n)

HasResult(r) == r.result # JUndefined

HasError(r) == r.error # JUndefined

\* Some pool.query of the request was rejected by the database.
ExecutorRejected == \E i \in 1..Len(poolCalls) : poolCalls[i].outcome.rejected

\* The column query of the request resolved with this many rows or more.
ColumnRowsAtLeast(n) ==
  /\ Len(poolCalls) >= 1
  /\ poolCalls[1].outcome.settled
  /\ ~poolCalls[1].outcome.rejected
  /\ poolCalls[1].outcome.rowCount >= n

\* The indices of the placeholders of a text, in the order they appear.
RECURSIVE PlaceholdersOf(_)
PlaceholdersOf(text) ==
  IF text = <<>> THEN <<>>
  ELSE IF Head(text) = "$"
    THEN LET ds == DigitPrefix(Tail(text))
         IN (IF ds = <<>> THEN <<>> ELSE <<DigitsValue(ds)>>)
            \o PlaceholdersOf(SubSeq(text, 2 + Len(ds), Len(text)))
  ELSE PlaceholdersOf(Tail(text))

\* The pairs column = $index of a text, in the order they appear.
RECURSIVE Assignments(_)
Assignments(text) ==
  IF Len(text) < 4 THEN <<>>
  ELSE IF text[2] = " = " /\ text[3] = "$"
    THEN LET ds == DigitPrefix(SubSeq(text, 4, Len(text)))
         IN <<[column |-> text[1], index |-> DigitsValue(ds)]>>
            \o Assignments(SubSeq(text, 4 + Len(ds), Len(text)))
  ELSE Assignments(Tail(text))

After(text, word) ==
  IF IndexOf(text, word) = -1 THEN <<>>
  ELSE SubSeq(text, IndexOf(text, word) + 2, Len(text))

Before(text, word) ==
  IF IndexOf(text, word) = -1 THEN text
  ELSE SubSeq(text, 1, IndexOf(text, word))

SetClause(text) == Before(After(text, " SET "), " WHERE ")

WhereClause(text) == Before(After(text, " WHERE "), " RETURNING ")

\* ------------------------------------------------------------------- C11
\* C11: every response simple-server gives to a request that has method,
\* params and id carries exactly one of result and error, and its id is the
\* id of the request.
C11_OneOfResultOrError ==
  (/\ server = "simple"
   /\ pc = "done"
   /\ TheRequest.ty = "object"
   /\ Member(TheRequest, "method") # JUndefined
   /\ Member(TheRequest, "params") # JUndefined
   /\ Member(TheRequest, "id") # JUndefined)
  => /\ produced.t = "write"
     /\ HasResult(produced.value) # HasError(produced.value)
     /\ produced.value.id = Member(TheRequest, "id")

\* A tool call with an id was answered with a result after its query
\* resolved.
C11_Witness ==
  /\ server = "simple"
  /\ pc = "done"
  /\ IsToolCall
  /\ Member(TheRequest, "id") = JStr(<<"2">>)
  /\ Len(poolCalls) = 1
  /\ ~ExecutorRejected
  /\ HasResult(produced.value)
  /\ ~HasError(produced.value)

\* ------------------------------------------------------------------- C12
\* C12: an error response of simple-server has code -32700, -32601 or -32000:
\* -32700 exactly when the line is not parseable, -32601 exactly when the
\* method is not callTool or the tool name is unknown, -32000 for a failure
\* of a tool call.
C12_ErrorCodes ==
  (server = "simple" /\ pc = "done" /\ HasError(produced.value)) =>
    LET code == produced.value.error.code
    IN /\ code \in {-32700, -32601, -32000}
       /\ (code = -32700) = (~ParseLine(input).ok)
       /\ (code = -32601) =
            (/\ TheRequest.ty = "object"
             /\ \/ Member(TheRequest, "method") # CallToolMethod
                \/ IsToolCall /\ ~KnownTool)
       /\ code = -32000 =>
            /\ TheRequest.ty = "object"
            /\ Member(TheRequest, "method") = CallToolMethod

\* ------------------------------------------------------------------- C13
\* C13: a tool call whose name is none of the six tools makes no pool.query
\* and is answered with method not found, in simple-server (error -32601) and
\* in the SDK server (McpError with ErrorCode.MethodNotFound).
C13_UnknownTool ==
  (IsToolCall /\ ~KnownTool) =>
    /\ poolCalls = <<>>
    /\ pc # "await"
    /\ pc = "done" =>
         IF server = "simple"
         THEN /\ produced.t = "write"
              /\ ~HasResult(produced.value)
              /\ HasError(produced.value)
              /\ produced.value.error.code = -32601
         ELSE /\ produced.t = "throw"
              /\ produced.error.name = "McpError"
              /\ produced.error.code = MethodNotFound

\* The SDK server has answered a call of an unknown tool that came with an
\* sql argument.
C13_Witness ==
  /\ server = "sdk"
  /\ pc = "done"
  /\ IsToolCall
  /\ ~KnownTool
  /\ Member(CallArgs, "sql") # JUndefined
  /\ produced.t = "throw"

\* ------------------------------------------------------------------- C14
\* The arguments the tool list declares as required.
Required(name) ==
  CASE name = "query" -> {"sql"}
    [] name = "get_tables" -> {}
    [] name = "get_table_schema" -> {"table"}
    [] name = "insert_record" -> {"table", "data"}
    [] name = "update_record" -> {"table", "data", "conditions"}
    [] name = "delete_record" -> {"table", "conditions"}

\* The call is of a known tool and lacks a required argument of it.
MissingRequired ==
  /\ IsToolCall
  /\ \E n \in ToolNames :
       /\ CallName = JText(n)
       /\ \E k \in Required(n) : Member(CallArgs, k) = JUndefined

\* C14: a tool call that lacks a required argument makes no pool.query and
\* is answered with an invalid-params error (JSON-RPC code -32602).
C14_MissingArgument ==
  MissingRequired =>
    /\ poolCalls = <<>>
    /\ pc = "done" =>
         IF server = "simple"
         THEN /\ HasError(produced.value)
              /\ produced.value.error.code = -32602
         ELSE /\ produced.t = "throw"
              /\ produced.error.code = -32602

\* ------------------------------------------------------------------- C15
\* C15: when pool.query rejects, simple-server answers with a result whose
\* payload has isError: true, and not with an error.
C15_ExecutorFailureInline ==
  (server = "simple" /\ pc = "done" /\ ExecutorRejected) =>
    /\ HasResult(produced.value)
    /\ ~HasError(produced.value)
    /\ produced.value.result.isError = JTrue

\* ------------------------------------------------------------------- C16
\* C16: in the SDK server a rejection of pool.query ends the handler with a
\* returned result that has isError: true; the CallTool handler throws only
\* an McpError, with MethodNotFound for an unknown tool name and with
\* InternalError for a failure outside the try of a tool (arguments that are
\* missing altogether).
C16_SdkHandlersCatch ==
  server = "sdk" =>
    /\ ExecutorRejected =>
         /\ pc = "done"
         /\ produced.t = "return"
         /\ produced.value.isError = JTrue
    /\ (pc = "done" /\ produced.t = "throw") =>
         /\ produced.error.name = "McpError"
         /\ \/ ~KnownTool /\ produced.error.code = MethodNotFound
            \/ /\ KnownTool
               /\ IsNullish(CallArgs)
               /\ produced.error.code = InternalError
               /\ poolCalls = <<>>

\* The primary-key lookup of get_table_schema was rejected and the SDK server
\* returned a result flagged isError.
C16_Witness ==
  /\ server = "sdk"
  /\ pc = "done"
  /\ IsCallOf("get_table_schema")
  /\ Len(poolCalls) = 2
  /\ poolCalls[2].outcome.rejected
  /\ produced.t = "return"
  /\ produced.value.isError = JTrue

\* ------------------------------------------------------------------- C17
IsSchemaCall == IsCallOf("get_table_schema") /\ ~IsNullish(CallArgs)

C17_Counts ==
  IsSchemaCall =>
    /\ Len(poolCalls) <= 2
    /\ Len(poolCalls) >= 1 =>
         /\ poolCalls[1].sql = ColumnsSql
         /\ poolCalls[1].params =
              JArray(<<Default(Member(CallArgs, "schema"), JText("public")),
                       Member(CallArgs, "table")>>)
    /\ Len(poolCalls) = 2 =>
         /\ poolCalls[2].sql = PkSql
         /\ ColumnRowsAtLeast(1)
    /\ pc = "done" =>
         /\ Len(poolCalls) >= 1
         /\ (ColumnRowsAtLeast(0) /\ ~ColumnRowsAtLeast(1)) => Len(poolCalls) = 1
         /\ ColumnRowsAtLeast(1) => Len(poolCalls) = 2

C17_InSequence ==
  (IsSchemaCall /\ Len(poolCalls') # Len(poolCalls)) =>
    /\ Len(poolCalls') = Len(poolCalls) + 1
    /\ \A i \in 1..Len(poolCalls) : poolCalls'[i].outcome.settled

\* C17: get_table_schema makes the column query first and the primary-key
\* lookup second, the second only after the first has resolved; with zero
\* column rows the request makes exactly one pool.query, with one row or more
\* exactly two.
C17_SchemaQueries == [](C17_Counts) /\ [][C17_InSequence]_vars

\* The column query returned zero rows and the request has ended with one
\* pool.query made.
C17_Witness ==
  /\ IsSchemaCall
  /\ pc = "done"
  /\ ColumnRowsAtLeast(0)
  /\ ~ColumnRowsAtLeast(1)
  /\ Len(poolCalls) = 1

\* ------------------------------------------------------------------- C18
\* C18: when the column query of get_table_schema returns zero rows, the
\* response is neither an error nor a result flagged isError.
C18_NotFoundIsNoError ==
  (IsSchemaCall /\ pc = "done" /\ ColumnRowsAtLeast(0) /\ ~ColumnRowsAtLeast(1)) =>
    IF server = "simple"
    THEN /\ HasResult(produced.value)
         /\ ~HasError(produced.value)
         /\ produced.value.result.isError # JTrue
    ELSE /\ produced.t = "return"
         /\ produced.value.isError # JTrue

\* ------------------------------------------------------------------- C19
\* C19: the statement of update_record for data of k members and conditions
\* of m members sets the data columns to $1..$k in the order of data, compares
\* the condition columns with $(k+1)..$(k+m) in the order of conditions, and
\* is sent with the data values followed by the condition values.
C19_UpdateOffsetLaw ==
  (IsCallOf("update_record") /\ poolCalls # <<>>) =>
    LET data == Member(CallArgs, "data")
        conditions == Member(CallArgs, "conditions")
        k == Len(data.entries)
        m == Len(conditions.entries)
        sql == poolCalls[1].sql.text
        values == poolCalls[1].params.items
    IN /\ Assignments(SetClause(sql)) =
            [i \in 1..k |-> [column |-> data.entries[i].key, index |-> i]]
       /\ Assignments(WhereClause(sql)) =
            [i \in 1..m |-> [column |-> conditions.entries[i].key, index |-> k + i]]
       /\ PlaceholdersOf(sql) = [i \in 1..(k + m) |-> i]
       /\ values = ObjectValues(data) \o ObjectValues(conditions)
       /\ Len(values) = k + m
       /\ m >= 1 => values[k + 1] = conditions.entries[1].value

\* An update of two columns under one condition was sent to the database.
C19_Witness ==
  /\ IsCallOf("update_record")
  /\ Len(poolCalls) = 1
  /\ Len(Member(CallArgs, "data").entries) = 2
  /\ Len(Member(CallArgs, "conditions").entries) = 1
  /\ Member(CallArgs, "conditions").entries[1].key = "id"
  /\ PlaceholdersOf(poolCalls[1].sql.text) = <<1, 2, 3>>

\* ------------------------------------------------------------------- C20
IsRecordCall ==
  IsCallOf("insert_record") \/ IsCallOf("update_record") \/ IsCallOf("delete_record")

\* C20: in every statement of insert_record, update_record and delete_record
\* the placeholders are $1..$n, each once, with n the number of parameters
\* sent with it, whatever the sizes of data and conditions; the conditions of
\* delete_record start at $1.
C20_QueryPlan ==
  IsRecordCall =>
    \A c \in 1..Len(poolCalls) :
      LET text == poolCalls[c].sql.text
          ph == PlaceholdersOf(text)
          n == Len(poolCalls[c].params.items)
      IN /\ Len(ph) = n
         /\ \A i \in 1..n : Cardinality({p \in 1..Len(ph) : ph[p] = i}) = 1
         /\ (IsCallOf("delete_record") /\ n >= 1) =>
              Assignments(WhereClause(text))[1].index = 1

\* A delete under two conditions was sent to the database.
C20_Witness ==
  /\ IsCallOf("delete_record")
  /\ Len(poolCalls) = 1
  /\ Len(poolCalls[1].params.items) = 2
  /\ PlaceholdersOf(poolCalls[1].sql.text) = <<1, 2>>

\* ------------------------------------------------------------------- C21
\* The items of a list written with ", " between them.
ListItems(text) == SelectSeq(text, LAMBDA piece : piece # ", ")

\* The column list of an INSERT statement.
InsertColumns(text) == ListItems(Before(After(text, " ("), ") VALUES ("))

\* The placeholders of the VALUES list of an INSERT statement.
InsertPlaceholders(text) == PlaceholdersOf(After(text, ") VALUES ("))

\* C21: in the statement of insert_record the column list and the parameter
\* list follow data in the same order: at every position i the column is a key
\* of data, the i-th parameter is the value of that key, and the i-th
\* placeholder of the VALUES list is $i.
C21_InsertColumnOrder ==
  (IsCallOf("insert_record") /\ poolCalls # <<>>) =>
    LET data == Member(CallArgs, "data")
        n == Len(data.entries)
        text == poolCalls[1].sql.text
        columns == InsertColumns(text)
        values == poolCalls[1].params.items
    IN /\ Len(columns) = n
       /\ Len(values) = n
       /\ InsertPlaceholders(text) = [i \in 1..n |-> i]
       /\ \A i \in 1..n :
            /\ columns[i] = data.entries[i].key
            /\ values[i] = Member(data, columns[i])

\* An insert whose data names "name" before "id" was sent to the database.
C21_Witness ==
  /\ IsCallOf("insert_record")
  /\ Len(poolCalls) = 1
  /\ InsertColumns(poolCalls[1].sql.text) = <<"name", "id">>
  /\ poolCalls[1].params.items = <<JNum(2), JNum(1)>>
  /\ InsertPlaceholders(poolCalls[1].sql.text) = <<1, 2>>

\* ------------------------------------------------------------------- C22
\* C22: the query tool makes one pool.query, with the sql argument as its
\* text and the params argument as its parameters, an empty list where params
\* is omitted.
C22_QueryPassThrough ==
  (IsCallOf("query") /\ poolCalls # <<>>) =>
    /\ Len(poolCalls) = 1
    /\ poolCalls[1].sql = Member(CallArgs, "sql")
    /\ poolCalls[1].params =
         (IF Member(CallArgs, "params") = JUndefined THEN JArray(<<>>)
          ELSE Member(CallArgs, "params"))

\* A query with one parameter was sent to the database by simple-server.
C22_Witness ==
  /\ server = "simple"
  /\ IsCallOf("query")
  /\ Member(CallArgs, "params") = JArray(<<JNum(5)>>)
  /\ Len(poolCalls) = 1
  /\ poolCalls[1].sql = SqlText(<<"SELECT 1">>)
  /\ poolCalls[1].params = JArray(<<JNum(5)>>)

\* ------------------------------------------------------------------- C23
\* The JSON document in the text of the answer to a tool call.
AnswerDocument ==
  IF server = "simple" THEN produced.value.result.content[1].text.of
  ELSE produced.value.content[1].text.of

\* C23: the answer to an insert_record whose pool.query resolved is a result
\* whose text has rowCount equal to the row count of the database's result
\* and, where returning is not empty, returning equal to its rows; where
\* returning is empty or omitted the text has no returning member.
C23_InsertResult ==
  (/\ IsCallOf("insert_record")
   /\ pc = "done"
   /\ Len(poolCalls) = 1
   /\ ~ExecutorRejected) =>
    LET returning == Default(Member(CallArgs, "returning"), JArray(<<>>))
        outcome == poolCalls[1].outcome
    IN /\ server = "simple" =>
            /\ produced.t = "write"
            /\ HasResult(produced.value)
            /\ ~HasError(produced.value)
       /\ server = "sdk" => produced.t = "return"
       /\ Member(AnswerDocument, "rowCount") = JNum(outcome.rowCount)
       /\ IF Len(returning.items) > 0
          THEN Member(AnswerDocument, "returning") = JArray(outcome.rows)
          ELSE Member(AnswerDocument, "returning") = JUndefined

\* An insert with returning ["id"] was answered after the database returned
\* one row.
C23_Witness ==
  /\ server = "simple"
  /\ IsCallOf("insert_record")
  /\ pc = "done"
  /\ Member(CallArgs, "returning") = JArray(<<JText("id")>>)
  /\ Len(poolCalls) = 1
  /\ poolCalls[1].outcome = Resolved(<<Row(1)>>, 1)
  /\ Member(AnswerDocument, "rowCount") = JNum(1)
  /\ Member(AnswerDocument, "returning") = JArray(<<Row(1)>>)

\* ------------------------------------------------------------------- C26
\* C26: once the child has exited, no request is left pending: every request
\* that was outstanding has been rejected and its caller answered with an
\* error.
C26_CloseRejectsPending ==
  ~alive =>
    \A c \in Calls :
      /\ calls[c].promise # "pending"
      /\ calls[c].reply # NoReply
      /\ ~Pending(c)

\* ------------------------------- terms of the claims on bridge and child
\* The lines the child has handled to their end, in the order it read them,
\* each with its pool.query calls and its answer.
Handled ==
  history \o (IF pc = "done"
              THEN <<[input |-> input, poolCalls |-> poolCalls, produced |-> produced]>>
              ELSE <<>>)

\* The request of a handled line, undefined where the line is no JSON.
RequestOf(h) == ParseLine(h.input).value

ToolOf(request) == Member(Member(request, "params"), "name")

ArgsOf(request) == Member(Member(request, "params"), "arguments")

\* The line was a call of this tool.
HandledCallOf(h, name) ==
  /\ Member(RequestOf(h), "method") = CallToolMethod
  /\ ToolOf(RequestOf(h)) = JText(name)

NoneRejected(h) == \A i \in 1..Len(h.poolCalls) : ~h.poolCalls[i].outcome.rejected

\* The JSON document in the text of a response that has a result.
DocumentOf(response) == response.result.content[1].text.of

\* POST number c carries a call of one of the six tools in a body that is
\* written to the child as one line.
ValidCall(c) ==
  /\ c \in Calls
  /\ Member(calls[c].body, "method") = CallToolMethod
  /\ \E n \in ToolNames : ToolOf(calls[c].body) = JText(n)
  /\ Len(Readline(calls[c].body)) = 1

\* The response to POST number c has been written, delivered and processed.
ResponseProcessed(c) ==
  /\ c \in Calls
  /\ Len(Handled) >= c
  /\ Member(RequestOf(Handled[c]), "id") = SentId(c)
  /\ pipe = <<>>
  /\ buffer = <<>>

\* ------------------------------------------------------------------- C24
\* The table names and the count a result of pool.query stands for.
CatalogOf(outcome) ==
  [tables |-> JArray(MapRows(outcome.rows, "table_name")),
   count |-> JNum(outcome.rowCount)]

C25_BodyIsLine ==
  IsDataStep =>
    \A c \in Calls : \A j \in 1..Len(lastLines') :
      (Pending(c) /\ IsResponseTo(lastLines'[j], c)) =>
        /\ calls'[c].reply.status = 200
        /\ calls'[c].reply.body = JSONParse(lastLines'[j]).value
        /\ calls'[c].reply.body.kind \in {"result", "error"}

C25_BodyIsAnswer ==
  \A c \in Calls :
    calls[c].reply # NoReply =>
      /\ calls[c].reply.status = 200
      /\ Len(Handled) >= c
      /\ calls[c].reply.body.value = Handled[c].produced.value

C25_Verbatim == [](C25_BodyIsAnswer) /\ [][C25_BodyIsLine]_vars

\* A caller was sent, with status 200, the error envelope the child wrote
\* after the database had rejected its query.
C25_Witness ==
  \E c \in Calls :
    /\ calls[c].reply.status = 200
    /\ calls[c].reply.body.kind = "error"
    /\ calls[c].reply.body.value.error.code = -32000
    /\ calls[c].reply.body.value = Handled[c].produced.value
    /\ ~NoneRejected(Handled[c])

\* ------------------------------------------------------------------- C27
\* C27: when the bridge processes a response line of the child that carries
\* a parse error, a method-not-found error or an unknown-tool error, the
\* caller whose request is pending is sent that error in the same step.
C27_ErrorSurfaces ==
  IsDataStep =>
    \A j \in 1..Len(lastLines') :
      LET parsed == JSONParse(lastLines'[j])
      IN (/\ parsed.ok
          /\ parsed.value.kind = "error"
          /\ parsed.value.value.error.code \in {-32700, -32601}) =>
           \E c \in Calls :
             /\ Pending(c)
             /\ calls'[c].reply = OkReply(parsed.value)

C27_ErrorsImmediate == [][C27_ErrorSurfaces]_vars

\* ------------------------------------------------------------------- C28
\* C28: when the response to a call of one of the six tools with the
\* arguments of test-api.js has been processed, and the database rejected
\* none of its queries, the caller has been sent, with status 200, an
\* envelope with a result and no error whose text is the JSON document of the
\* result of the tool.
C28_ToolsEndToEnd ==
  \A c \in Calls :
    (ValidCall(c) /\ ResponseProcessed(c) /\ NoneRejected(Handled[c])) =>
      /\ calls[c].reply.status = 200
      /\ LET response == calls[c].reply.body.value
             tool == ToolOf(calls[c].body)
             Has(key) == Member(DocumentOf(response), key) # JUndefined
         IN /\ HasResult(response)
            /\ ~HasError(response)
            /\ response.id = SentId(c)
            /\ response.result.isError # JTrue
            /\ tool = JText("get_tables") => Has("tables") /\ Has("count")
            /\ tool = JText("query") => Has("rows") /\ Has("rowCount")
            /\ tool = JText("get_table_schema") =>
                 /\ Member(DocumentOf(response), "table") = JText("users")
                 /\ Has("schema") /\ Has("columns") /\ Has("primaryKeys")
            /\ tool \in {JText("insert_record"), JText("update_record"),
                         JText("delete_record")} =>
                 /\ Member(DocumentOf(response), "success") = JTrue
                 /\ Has("rowCount") /\ Has("returning")

\* Against the database, a delete_record and before it an insert_record were
\* answered to their callers with results.
C28_Witness ==
  /\ ~mock
  /\ Len(calls) >= 2
  /\ ToolOf(calls[1].body) = JText("insert_record")
  /\ ToolOf(calls[2].body) = JText("delete_record")
  /\ ResponseProcessed(2)
  /\ calls[1].reply.status = 200
  /\ calls[2].reply.status = 200
  /\ Member(DocumentOf(calls[2].reply.body.value), "returning") = JArray(<<Row(1)>>)

\* ------------------------------------------------------------------- C29
\* C29: in mock mode simple-server makes no pool.connect when it starts and
\* no pool.query for any line, it answers every line, and it answers the
\* calls of the six tools with results made of its mock data.
C29_MockNeverTouchesPool ==
  mock =>
    /\ connects = 0
    /\ boot = "running"
    /\ pc # "await"
    /\ poolCalls = <<>>
    /\ \A i \in 1..Len(Handled) :
         LET h == Handled[i]
             Doc(key) == Member(DocumentOf(h.produced.value), key)
         IN /\ h.poolCalls = <<>>
            /\ h.produced.t = "write"
            /\ HandledCallOf(h, "get_tables") =>
                 Doc("tables") = JArray(mockTables) /\ Doc("count") = JNum(5)
            /\ HandledCallOf(h, "get_table_schema") =>
                 /\ Doc("columns") = JArray(mockSchemas.users)
                 /\ Doc("primaryKeys") = JArray(<<JText("id")>>)
            /\ HandledCallOf(h, "query") =>
                 Doc("rows") = JArray(mockData.users) /\ Doc("rowCount") = JNum(2)
            /\ (\/ HandledCallOf(h, "insert_record")
                \/ HandledCallOf(h, "update_record")
                \/ HandledCallOf(h, "delete_record")) =>
                 /\ Doc("rowCount") = JNum(1)
                 /\ Doc("returning").ty = "array"

\* In mock mode a get_tables and then an insert_record were answered.
C29_Witness ==
  /\ mock
  /\ Len(Handled) >= 2
  /\ HandledCallOf(Handled[1], "get_tables")
  /\ HandledCallOf(Handled[2], "insert_record")
  /\ HasResult(Handled[2].produced.value)
  /\ connects = 0

\* ------------------------------------------------------------------- C30
\* The members of an object other than id, in their order.
WithoutId(o) == SelectSeq(o.entries, LAMBDA e : e.key # "id")

C30_LineCarriesId ==
  Len(calls') = Len(calls) + 1 =>
    LET c == Len(calls')
        body == calls'[c].body
        written == SubSeq(stdin', Len(stdin) + 1, Len(stdin'))
    IN /\ calls'[c].requestId = currentId
       /\ Len(Readline(body)) = 1 =>
            /\ Len(written) = 1
            /\ written[1].t = "json"
            /\ Member(written[1].value, "id") = JStr(NumberToString(currentId))
            /\ WithoutId(written[1].value) = WithoutId(body)

C30_ReplyCarriesId ==
  \A c \in Calls :
    calls[c].reply.status = 200 =>
      /\ calls[c].reply.body.value.id = JStr(NumberToString(calls[c].requestId))
      /\ calls[c].reply.body.value.id # Member(calls[c].body, "id")

\* C30: the line the bridge writes for a request has the value of currentId,
\* as a decimal string, as its id, also where the body has an id of its own,
\* and the other members of the body as they are; the envelope sent to the
\* caller has the id the bridge gave.
C30_BridgeAssignsId == [](C30_ReplyCarriesId) /\ [][C30_LineCarriesId]_vars

\* The second request, whose body had the id "99", was answered with an
\* envelope of id "2".
C30_Witness ==
  /\ Len(calls) >= 2
  /\ Member(calls[2].body, "id") = JStr(<<"9", "9">>)
  /\ calls[2].reply.status = 200
  /\ calls[2].reply.body.value.id = JStr(<<"2">>)

\* ------------------------------------------------------------------- C32
\* POST number c has been answered with exactly one HTTP response.
AnsweredOnce(c) == c \in Calls /\ calls[c].sent = 1

C32_AtMostOne ==
  \A c \in Calls :
    /\ calls[c].sent <= 1
    /\ calls[c].sent = 1 <=> calls[c].reply # NoReply
    /\ calls[c].reply # NoReply => calls[c].reply.status \in {200, 500}

\* C32: every POST is answered with exactly one HTTP response, the envelope
\* or a status 500, however the arrival of responses, the firing of timers
\* and failures of the write fall: never two responses, and, where armed
\* timers fire in the end, never none.
C32_ExactlyOneResponse ==
  /\ [](C32_AtMostOne)
  /\ \A c \in 1..MaxRequests : (c \in Calls) ~> AnsweredOnce(c)

\* ------------------------------------------------------------------- C33
C33_EntryIffArmed ==
  /\ \A c \in Calls : Pending(c) <=> calls[c].timer = "armed"
  /\ \A e \in pendingRequests :
       /\ e.call \in Calls
       /\ calls[e.call].requestId = e.key
       /\ calls[e.call].timer = "armed"

C33_TimerSteps ==
  \A c \in Calls :
    /\ (calls[c].timer = "armed" /\ calls'[c].timer = "cleared") =>
         /\ Pending(c)
         /\ ~MapHas(pendingRequests', calls[c].requestId)
         /\ calls'[c].promise = "fulfilled"
    /\ (calls[c].timer # "fired" /\ calls'[c].timer = "fired") =>
         /\ calls[c].timer = "armed"
         /\ calls[c].promise = "pending"
         /\ Pending(c)
         /\ ~MapHas(pendingRequests', calls[c].requestId)
    /\ calls[c].timer \in {"cleared", "fired"} => calls'[c].timer = calls[c].timer

\* C33: an id has an entry in pendingRequests exactly while the timer of its
\* request is armed; the step in which a response resolves a request cancels
\* its timer and removes its entry, a timer fires only for a request that is
\* not settled and removes its entry in that step, and a timer cancelled or
\* fired stays so.
C33_EntryAndTimer == [](C33_EntryIffArmed) /\ [][C33_TimerSteps]_vars

\* One request was resolved by its response and its timer cancelled, the
\* timer of another fired, and neither has an entry.
C33_Witness ==
  \E c, d \in Calls :
    /\ calls[c].timer = "cleared"
    /\ calls[c].promise = "fulfilled"
    /\ calls[d].timer = "fired"
    /\ pendingRequests = {}

\* ------------------------------------------------------------------- C34
\* C34: once the HTTP response of a request has been sent, with the envelope,
\* with the timeout error or with the error of a failed write, the id of the
\* request has no entry in pendingRequests and its timer is not armed.
C34_NothingLeftBehind ==
  \A c \in Calls :
    calls[c].sent >= 1 =>
      /\ ~MapHas(pendingRequests, calls[c].requestId)
      /\ calls[c].timer # "armed"

\* ------------------------------------------------------------------- C35
C35_RegisteredAtWrite ==
  Len(stdin') > Len(stdin) =>
    \E c \in 1..Len(calls') :
      /\ stdin'[Len(stdin')].id = JStr(NumberToString(calls'[c].requestId))
      /\ [key |-> calls'[c].requestId, call |-> c] \in pendingRequests'
      /\ calls'[c].timer = "armed"

C35_ResponseAfterRegistration ==
  IsDataStep =>
    \A j \in 1..Len(lastLines') : \A n \in 1..(MaxRequests + 1) :
      (/\ JSONParse(lastLines'[j]).ok
       /\ JSONParse(lastLines'[j]).value.id = JStr(NumberToString(n))) =>
        /\ n \in Calls
        /\ calls[n].requestId = n
        /\ calls[n].settles + Cardinality({e \in pendingRequests : e.call = n}) >= 1

C35_OnlyRegisteredOnTheWay ==
  /\ \A i \in 1..Len(stdin) : \E c \in Calls : stdin[i].id = SentId(c)
  /\ \A h \in handlers : \E c \in Calls : h.id = SentId(c)
  /\ \A i \in 1..Len(pipe) : \A n \in 1..(MaxRequests + 1) :
       (pipe[i].t = "msg" /\ pipe[i].id = JStr(NumberToString(n))) => n \in Calls

\* C35: in the step that writes a request line the entry of the request is
\* registered and its timer armed; every request line, handler and response
\* on the way belongs to a request that was registered, and a response is
\* processed only for a request that has its entry or has been settled.
C35_RegisterBeforeWrite ==
  /\ [](C35_OnlyRegisteredOnTheWay)
  /\ [][C35_RegisteredAtWrite]_vars
  /\ [][C35_ResponseAfterRegistration]_vars

\* The response to a request was processed while the request had its entry,
\* and resolved it.
C35_Witness ==
  \E c \in Calls :
    /\ Len(lastLines) >= 1
    /\ IsResponseTo(lastLines[1], c)
    /\ calls[c].promise = "fulfilled"
    /\ calls[c].reply.status = 200

\* ------------------------------------------------------------------- C31
\* The values a record tool hands to pool.query: those of data, then those
\* of conditions, as far as the tool takes them.
RecordValues ==
  (IF IsCallOf("delete_record") THEN <<>>
   ELSE ObjectValues(Member(CallArgs, "data")))
  \o (IF IsCallOf("insert_record") THEN <<>>
      ELSE ObjectValues(Member(CallArgs, "conditions")))

\* C31: the statement of insert_record, update_record and delete_record has
\* a RETURNING clause exactly when returning is not empty; the clause ends
\* the statement and lists the columns of returning in their order; it holds
\* no placeholder, and the parameters are the values of data and conditions
\* alone; and the result has a returning member, the rows of the database,
\* exactly when returning is not empty.
C31_ReturningClause ==
  (IsRecordCall /\ poolCalls # <<>>) =>
    LET returning == Default(Member(CallArgs, "returning"), JArray(<<>>))
        columns == [i \in 1..Len(returning.items) |-> returning.items[i].w]
        text == poolCalls[1].sql.text
        clause == After(text, " RETURNING ")
        statement == Before(text, " RETURNING ")
    IN /\ (IndexOf(text, " RETURNING ") # -1) <=> (columns # <<>>)
       /\ ListItems(clause) = columns
       /\ PlaceholdersOf(clause) = <<>>
       /\ PlaceholdersOf(statement) = [i \in 1..Len(RecordValues) |-> i]
       /\ poolCalls[1].params.items = RecordValues
       /\ (pc = "done" /\ Len(poolCalls) = 1 /\ ~ExecutorRejected) =>
            Member(AnswerDocument, "returning")
              = (IF columns # <<>> THEN JArray(poolCalls[1].outcome.rows)
                 ELSE JUndefined)

\* An update with returning ["name", "id"] was sent to the database with a
\* clause naming the two columns in that order, and was answered with the
\* returned row.
C31_Witness ==
  /\ IsCallOf("update_record")
  /\ pc = "done"
  /\ Len(poolCalls) = 1
  /\ After(poolCalls[1].sql.text, " RETURNING ") = <<"name", ", ", "id">>
  /\ poolCalls[1].outcome = Resolved(<<Row(1)>>, 1)
  /\ Member(AnswerDocument, "returning") = JArray(<<Row(1)>>)

\* ------------------------------------------------------------------- C36
\* The line is JSON whose id has no entry: null, no id, a string that is no
\* number, or the decimal string of a number that has no entry.
HasNoEntry(line) ==
  /\ JSONParse(line).ok
  /\ LET id == JSONParse(line).value.id
     IN \/ id = JNull
        \/ id = JUndefined
        \/ id = JStr(<<"a", "b", "c">>)
        \/ \E n \in 1..(MaxRequests + 1) :
             id = JStr(NumberToString(n)) /\ ~MapHas(pendingRequests, n)

C36_UnmatchedDiscarded ==
  (IsDataStep /\ \A j \in 1..Len(lastLines') : HasNoEntry(lastLines'[j])) =>
    /\ pendingRequests' = pendingRequests
    /\ calls' = calls
    /\ errorLog' = errorLog

\* C36: a 'data' event whose lines are JSON with ids that have no entry
\* leaves pendingRequests, the timer and the outcome of every request and
\* the count of error reports as they were.
C36_NoEntryNoEffect == [][C36_UnmatchedDiscarded]_vars

\* While a request was pending, the last 'data' event carried one line, a
\* response whose id is a string that is no number, and the request is
\* pending still.
C36_Witness ==
  /\ Len(lastLines) = 1
  /\ JSONParse(lastLines[1]).ok
  /\ JSONParse(lastLines[1]).value.id = JStr(<<"a", "b", "c">>)
  /\ \E c \in Calls : Pending(c) /\ calls[c].timer = "armed" /\ calls[c].reply = NoReply

\* ------------------------------------------------------------------- C37
\* The step ends the handler of a line: it was read and handled to its end in
\* this step, or it resumed from its await and ran to its end.
HandlerEnds ==
  /\ pc' = "done"
  /\ pc = "await" \/ received' = received + 1

C37_OneLinePerHandler ==
  /\ HandlerEnds =>
       /\ produced'.t = "write"
       /\ pipe' = pipe \o <<StdoutLine(produced'.value), Byte(10)>>
  /\ (~HandlerEnds /\ ~IsDataStep) => pipe' = pipe

C37_EveryLineAnswered ==
  /\ received = Len(Handled) + (IF pc = "await" THEN 1 ELSE 0)
  /\ \A i \in 1..Len(Handled) :
       /\ Handled[i].produced.t = "write"
       /\ HasResult(Handled[i].produced.value) # HasError(Handled[i].produced.value)

\* C37: simple-server writes one response line, and nothing else, in the step
\* that ends the handler of a line, whatever the line holds, also after
\* lines it answered with errors; every line it has read is answered with a
\* result or an error, or its handler is waiting for the database.
C37_OneResponsePerLine == [](C37_EveryLineAnswered) /\ [][C37_OneLinePerHandler]_vars

\* The child answered the JSON text null with the parse error and, after it,
\* a get_tables call with a result.
C37_Witness ==
  /\ Len(Handled) = 2
  /\ Handled[1].input = JsonLine(JNull)
  /\ Handled[1].produced.value.error.code = -32700
  /\ HandledCallOf(Handled[2], "get_tables")
  /\ HasResult(Handled[2].produced.value)

====
